---- MODULE Spec2Model ----
(***************************************************************************)
(* Model of the delta-aware heart-rate ingestion pipeline                   *)
(* (src/etl/pipeline.py with the extractors and transformers of src/etl and *)
(* the loaders of src/ingestion-service/etl/loaders).                       *)
(*                                                                         *)
(* Time.  A calendar date is an integer day number.  A timestamp is the     *)
(* integer day * PerDay + slot, slot in 0..PerDay-1 being the time of day   *)
(* of one cached intraday sample; the daily summary of a day is stamped at  *)
(* slot 0 (midnight).  Python's None is the empty tuple and a present value *)
(* x is the one-element tuple <<x>>.                                        *)
(***************************************************************************)
EXTENDS Integers, Sequences, FiniteSets, TLC

\* ------------------------------------------------------------------ bounds
\* Calendar days of the pipeline specification are 0..MaxDay.
MaxDay == 1
\* Number of intraday samples in one cached day record.
PerDay == 3
\* Batch size of the intraday loader (1000 in the source, scaled down so that
\* one day of PerDay samples still spans more than one batch).
IntradayBatchSize == 2
\* Number of run() calls explored.
MaxRuns == 2
\* Number of environment faults (failed setup, unreadable table, missing day
\* record, failed row, failed load call) explored.
MaxFaults == 1
\* Longest record list given to the delta filter on its own.
MaxLen == 3
\* Largest timestamp given to the delta filter on its own.
MaxTs == 3
\* Calendar days 0..RangeDays given to range discovery on its own.
RangeDays == 4

\* ------------------------------------------------------- program constants
\* Batch size of the summary loader.
SummaryBatchSize == 1
\* Length of the cyclic cache (calculate_shift).
CycleLength == 30
\* Days before today of the default start date.
DefaultLookbackDays == 30

None == <<>>
Some(x) == <<x>>

INTRADAY == "activities_heart_intraday"
SUMMARY == "activities_heart_summary"
Streams == {INTRADAY, SUMMARY}

\* The order in which a dict of components registered as in main() is visited.
RegistrationOrder == <<INTRADAY, SUMMARY>>

Min(S) == CHOOSE x \in S : \A y \in S : x <= y
Max(S) == CHOOSE x \in S : \A y \in S : x >= y

\* The calendar date of a timestamp (datetime.date()).
DateOf(ts) == ts \div PerDay

\* ------------------------------------------------------------ delta filter
\* A mutated filter that keeps the record equal to the watermark.
filter_inclusive(records, last_processed_timestamp) ==
    IF last_processed_timestamp = None
    THEN records
    ELSE SelectSeq(records,
                   LAMBDA r : r.timestamp >= last_processed_timestamp[1])

\* A mutated filter that writes the normalised timestamp back into the record,
\* one tick off.
filter_rewriting(records, last_processed_timestamp) ==
    IF last_processed_timestamp = None
    THEN records
    ELSE LET kept == SelectSeq(records,
                       LAMBDA r : r.timestamp > last_processed_timestamp[1])
         IN [i \in 1..Len(kept) |->
                [kept[i] EXCEPT !.timestamp = kept[i].timestamp - 1]]

\* BaseTransformer.filter_already_processed_records on canonical records.
filter_already_processed_records(records, last_processed_timestamp) ==
    IF last_processed_timestamp = None
    THEN records
    ELSE SelectSeq(records,
                   LAMBDA r : r.timestamp > last_processed_timestamp[1])

\* --------------------------------------------------------- range discovery
\* The loop of determine_date_range over the loaders, in visiting order.
RECURSIVE earliest_next_date(_, _, _, _)
earliest_next_date(order, wm, now, acc) ==
    IF order = <<>>
    THEN acc
    ELSE LET last_processed_timestamp == wm[Head(order)]
             rest == Tail(order)
         IN IF last_processed_timestamp = None
            THEN earliest_next_date(rest, wm, now, acc)
            ELSE LET next_date == DateOf(last_processed_timestamp[1]) + 1
                 IN IF next_date > now
                    THEN earliest_next_date(rest, wm, now, acc)
                    ELSE IF acc = None \/ next_date < acc[1]
                         THEN earliest_next_date(rest, wm, now, Some(next_date))
                         ELSE earliest_next_date(rest, wm, now, acc)

\* The same loop without the comparison: the last loader visited wins.
RECURSIVE last_next_date(_, _, _, _)
last_next_date(order, wm, now, acc) ==
    IF order = <<>>
    THEN acc
    ELSE LET last_processed_timestamp == wm[Head(order)]
             rest == Tail(order)
         IN IF last_processed_timestamp = None
            THEN last_next_date(rest, wm, now, acc)
            ELSE LET next_date == DateOf(last_processed_timestamp[1]) + 1
                 IN IF next_date > now
                    THEN last_next_date(rest, wm, now, acc)
                    ELSE last_next_date(rest, wm, now, Some(next_date))

\* The same loop without the guard against a candidate in the future.
RECURSIVE unguarded_next_date(_, _, _, _)
unguarded_next_date(order, wm, now, acc) ==
    IF order = <<>>
    THEN acc
    ELSE LET last_processed_timestamp == wm[Head(order)]
             rest == Tail(order)
         IN IF last_processed_timestamp = None
            THEN unguarded_next_date(rest, wm, now, acc)
            ELSE LET next_date == DateOf(last_processed_timestamp[1]) + 1
                 IN IF acc = None \/ next_date < acc[1]
                    THEN unguarded_next_date(rest, wm, now, Some(next_date))
                    ELSE unguarded_next_date(rest, wm, now, acc)

\* A mutated range discovery that lets a candidate in the future contribute.
determine_date_range_unguarded(order, wm, now, START_DATE, END_DATE) ==
    IF START_DATE # None /\ END_DATE # None
    THEN [start |-> START_DATE[1], end |-> END_DATE[1]]
    ELSE LET e == unguarded_next_date(order, wm, now, None)
         IN IF e # None
            THEN [start |-> e[1], end |-> now]
            ELSE IF START_DATE # None
                 THEN [start |-> START_DATE[1], end |-> now]
                 ELSE [start |-> now - DefaultLookbackDays, end |-> now]

\* A mutated range discovery whose fallback ignores the configured start date.
determine_date_range_lookback(order, wm, now, START_DATE, END_DATE) ==
    IF START_DATE # None /\ END_DATE # None
    THEN [start |-> START_DATE[1], end |-> END_DATE[1]]
    ELSE LET e == earliest_next_date(order, wm, now, None)
         IN IF e # None
            THEN [start |-> e[1], end |-> now]
            ELSE [start |-> now - DefaultLookbackDays, end |-> now]

\* A mutated range discovery in which the last loader visited wins.
determine_date_range_last(order, wm, now, START_DATE, END_DATE) ==
    IF START_DATE # None /\ END_DATE # None
    THEN [start |-> START_DATE[1], end |-> END_DATE[1]]
    ELSE LET e == last_next_date(order, wm, now, None)
         IN IF e # None
            THEN [start |-> e[1], end |-> now]
            ELSE IF START_DATE # None
                 THEN [start |-> START_DATE[1], end |-> now]
                 ELSE [start |-> now - DefaultLookbackDays, end |-> now]

\* ETLPipeline.determine_date_range: order is the visiting order of the
\* loaders, wm the value get_last_processed_timestamp returns for each.
determine_date_range(order, wm, now, START_DATE, END_DATE) ==
    IF START_DATE # None /\ END_DATE # None
    THEN [start |-> START_DATE[1], end |-> END_DATE[1]]
    ELSE LET e == earliest_next_date(order, wm, now, None)
         IN IF e # None
            THEN [start |-> e[1], end |-> now]
            ELSE IF START_DATE # None
                 THEN [start |-> START_DATE[1], end |-> now]
                 ELSE [start |-> now - DefaultLookbackDays, end |-> now]

\* -------------------------------------------------------------- extraction
\* Day number of BaseExtractor.base_date ("2024-01-01").
BaseDay == 0

\* A mutated shift that takes the remainder with the sign of the dividend, as
\* a truncating division gives it.
calculate_shift_truncated(target_date) ==
    IF target_date >= BaseDay
    THEN (target_date - BaseDay) % CycleLength
    ELSE 0 - ((BaseDay - target_date) % CycleLength)

\* BaseExtractor.calculate_shift.
calculate_shift(target_date) == (target_date - BaseDay) % CycleLength

\* The value of sample slot of the cached day record at index shift (the
\* content of the cache file, a fixed sample set).
CachedValue(shift, slot) == 60 + ((shift + slot) % 5)

\* The first draws of random.uniform(-5, 5) after random.seed(seed) for the
\* seeds explored, in hundredths as round(value + variation, 2) keeps them
\* (seed 1 draws -3.656, 3.474, 2.638, ...; seed 2 draws 4.560, 4.478, ...).
Draws ==
    [seed \in {1, 2} |->
        IF seed = 1
        THEN << -366, 347, 264, -245, -5, -51, 152, 289 >>
        ELSE << 456, 448, -443, -415, 335, 236, 170, -192 >>]

\* The i-th variation post_process_day_records adds to a value, in hundredths:
\* the generator is seeded anew for every day record.
Variation(seed, i) == Draws[seed][i]

Clamp(lo, hi, x) == IF x < lo THEN lo ELSE IF x > hi THEN hi ELSE x

\* HeartRateExtractor.process_day_record with post_process_day_records: one
\* candidate per cached sample, stamped with the target date; a non-zero seed
\* perturbs the values and keeps the times.  Intraday values are in
\* hundredths of a beat per minute (the code rounds to 2 decimals).
intraday_records(target_date, seed) ==
    [i \in 1..PerDay |->
        [dateTime |-> Some(target_date),
         time     |-> Some(i - 1),
         value    |-> Some(IF seed = 0
                           THEN 100 * CachedValue(calculate_shift(target_date),
                                                  i - 1)
                           ELSE Clamp(5000, 20000,
                                  100 * CachedValue(calculate_shift(target_date),
                                                    i - 1)
                                    + Variation(seed, i)))]]

\* HeartRateSummaryExtractor.process_summary_record as extract calls it: one
\* candidate per date carrying the cached resting heart rate.
summary_records(target_date, seed) ==
    << [dateTime           |-> Some(target_date),
        resting_heart_rate |->
            Some(CachedValue(calculate_shift(target_date), 0))] >>

\* extract(target_date) of the extractor registered under name: a list of
\* (schema, records) pairs, empty when the day record is missing or broken.
extract(name, target_date, seed, missing) ==
    IF <<target_date, name>> \in missing
    THEN <<>>
    ELSE << [name    |-> name,
             records |-> IF name = INTRADAY
                         THEN intraday_records(target_date, seed)
                         ELSE summary_records(target_date, seed)] >>

\* The extraction loop of execute_pipeline over the dates start + i for i in
\* days (ascending): every extractor is called for each date in registration
\* order, and the pairs the calls return are appended in that order.
extract_loop(days, start, seed, missing) ==
    LET n == Len(RegistrationOrder)
        calls == [k \in 1..(n * Len(days)) |->
                     [name |-> RegistrationOrder[((k - 1) % n) + 1],
                      date |-> start + days[((k - 1) \div n) + 1]]]
        answered == SelectSeq(calls,
                        LAMBDA c : extract(c.name, c.date, seed, missing) # <<>>)
    IN [k \in 1..Len(answered) |->
           extract(answered[k].name, answered[k].date, seed, missing)[1]]

\* range(a, b) of Python as a sequence.
PyRange(a, b) == [k \in 1..(IF b > a THEN b - a ELSE 0) |-> a + k - 1]

\* A mutated extraction loop that leaves the end date out.
extract_all_exclusive(i, num_days, start, seed, missing) ==
    extract_loop(PyRange(i, num_days - 1), start, seed, missing)

\* The extraction loop of execute_pipeline: dates start..end ascending, and
\* for each date every extractor in registration order.
extract_all(i, num_days, start, seed, missing) ==
    extract_loop(PyRange(i, num_days), start, seed, missing)

\* The number of records in a list of (schema, records) pairs, as
\* sum(len(records) for ...) counts them.
RECURSIVE SumLen(_)
SumLen(pairs) ==
    IF Len(pairs) = 0
    THEN 0
    ELSE IF Len(pairs) = 1
         THEN Len(pairs[1].records)
         ELSE LET mid == Len(pairs) \div 2
              IN SumLen(SubSeq(pairs, 1, mid))
                   + SumLen(SubSeq(pairs, mid + 1, Len(pairs)))

\* ---------------------------------------------------------- transformation
\* A part that is present and does not parse: datetime.fromisoformat raises
\* ValueError on such a date or time, float() on such a value.  No date, time
\* or value explored has this number.
Unparsable == -1000

\* record.get(key): None when the record has no such key.
Get(record, key) == IF key \in DOMAIN record THEN record[key] ELSE None

\* _transform_single_record / _transform_summary_record: None on rejection.
\* An intraday record is rejected when a part is missing or empty, the
\* timestamp does not parse, there is no value or float() rejects the value.
\* A summary record is rejected only for its dateTime: a resting heart rate
\* that is absent, None or rejected by int() is stored as None.
transform_single_record(name, record) ==
    LET date_time == Get(record, "dateTime")
        time_str == Get(record, "time")
    IN IF name = INTRADAY
       THEN IF date_time = None \/ time_str = None
            THEN None
            ELSE IF date_time[1] = Unparsable \/ time_str[1] = Unparsable
                 THEN None
                 ELSE IF Get(record, "value") = None
                      THEN None
                      ELSE IF record.value[1] = Unparsable
                           THEN None
                           ELSE Some([timestamp |-> date_time[1] * PerDay
                                                      + time_str[1],
                                      value     |-> record.value[1]])
       ELSE IF date_time = None
            THEN None
            ELSE IF date_time[1] = Unparsable
                 THEN None
                 ELSE LET resting_hr == Get(record, "resting_heart_rate")
                      IN Some([timestamp |-> date_time[1] * PerDay,
                               resting_heart_rate |->
                                   IF resting_hr # None
                                        /\ resting_hr[1] = Unparsable
                                   THEN None
                                   ELSE resting_hr])

\* transform_records: the canonical records of the accepted candidates, in
\* input order.
RECURSIVE transform_records(_, _)
transform_records(name, records) ==
    IF records = <<>>
    THEN <<>>
    ELSE transform_single_record(name, Head(records))
           \o transform_records(name, Tail(records))

\* BaseTransformer.reset_stats.
reset_stats == [total_records |-> 0, valid_records |-> 0,
                invalid_records |-> 0, missing_values_filled |-> 0]

\* The loop of HeartRateTransformer.transform_records (src/etl) from its
\* position: transformed_records so far and the statistics.
RECURSIVE transform_loop_etl(_, _, _)
transform_loop_etl(records, transformed_records, stats) ==
    IF records = <<>>
    THEN [records |-> transformed_records, transformation_stats |-> stats]
    ELSE LET counted == [stats EXCEPT !.total_records = @ + 1]
             transformed_record == transform_single_record(INTRADAY, Head(records))
         IN IF transformed_record # None
            THEN transform_loop_etl(Tail(records),
                                    transformed_records \o transformed_record,
                                    [counted EXCEPT !.valid_records = @ + 1])
            ELSE transform_loop_etl(Tail(records), transformed_records,
                                    [counted EXCEPT !.invalid_records = @ + 1])

\* A mutated transform_records that gives up the whole input when a record is
\* rejected, returning no records.
transform_records_aborting(records) ==
    LET done == transform_loop_etl(records, <<>>, reset_stats)
    IN IF done.transformation_stats.invalid_records > 0
       THEN [records |-> <<>>, transformation_stats |-> done.transformation_stats]
       ELSE done

\* HeartRateTransformer.transform_records of src/etl: the TransformedData it
\* returns (records and a copy of transformation_stats).
transform_records_etl(records) ==
    transform_loop_etl(records, <<>>, reset_stats)

\* HeartRateTransformer._transform_single_record of the ingestion service:
\* the record or None, and transformation_stats as the call leaves it.  The
\* value is record.get('value', 0): 0 without the key; a key holding None and
\* a value float() rejects are replaced by 0 and counted as filled.  A
\* timestamp that does not parse raises inside the try and gives None.
transform_single_record_ingestion(record, stats) ==
    IF Get(record, "dateTime") = None \/ Get(record, "time") = None
    THEN [out |-> None, stats |-> [stats EXCEPT !.invalid_records = @ + 1]]
    ELSE LET got == IF "value" \in DOMAIN record THEN record.value ELSE Some(0)
             fill == got = None \/ got[1] = Unparsable
             value == IF fill THEN 0 ELSE got[1]
             filled == IF fill
                       THEN [stats EXCEPT !.missing_values_filled = @ + 1]
                       ELSE stats
         IN IF record.dateTime[1] = Unparsable \/ record.time[1] = Unparsable
            THEN [out |-> None, stats |-> filled]
            ELSE [out |-> Some([timestamp |-> record.dateTime[1] * PerDay
                                                + record.time[1],
                                value     |-> value]),
                  stats |-> filled]

\* The loop of HeartRateTransformer.transform_records of the ingestion
\* service.
RECURSIVE transform_loop_ingestion(_, _, _)
transform_loop_ingestion(records, transformed_records, stats) ==
    IF records = <<>>
    THEN [records |-> transformed_records, transformation_stats |-> stats]
    ELSE LET counted == [stats EXCEPT !.total_records = @ + 1]
             single == transform_single_record_ingestion(Head(records), counted)
         IN IF single.out # None
            THEN transform_loop_ingestion(
                     Tail(records), transformed_records \o single.out,
                     [single.stats EXCEPT !.valid_records = @ + 1])
            ELSE transform_loop_ingestion(
                     Tail(records), transformed_records,
                     [single.stats EXCEPT !.invalid_records = @ + 1])

\* HeartRateTransformer.transform_records of the ingestion service.
transform_records_ingestion(records) ==
    transform_loop_ingestion(records, <<>>, reset_stats)

\* BaseLoader.get_last_processed_timestamp: MAX(timestamp) of the table, None
\* when the table is empty or the read raises.
get_last_processed_timestamp(rows, readable) ==
    IF ~readable \/ rows = {}
    THEN None
    ELSE Some(Max({r.timestamp : r \in rows}))

\* BaseTransformer.transform_records_with_filtering for one (schema, records)
\* pair; has_loader tells whether a loader is registered under the name.
transform_records_with_filtering(name, records, has_loader, rows, readable) ==
    LET transformed == transform_records(name, records)
    IN IF has_loader /\ transformed # <<>>
       THEN LET last_timestamp == get_last_processed_timestamp(rows, readable)
            IN IF last_timestamp # None
               THEN filter_already_processed_records(transformed, last_timestamp)
               ELSE transformed
       ELSE transformed

\* The transformers main() registers.
Transformers == Streams

\* The transformation loop of execute_pipeline: every pair is transformed and
\* filtered with a watermark read of its own, and appended when records
\* remain; unreadable is the set of positions whose read raises.
transform_all(pairs, loaders, st, unreadable) ==
    LET result == [k \in 1..Len(pairs) |->
                      [name |-> pairs[k].name,
                       records |->
                          IF pairs[k].name \notin Transformers
                          THEN <<>>
                          ELSE transform_records_with_filtering(
                                   pairs[k].name, pairs[k].records,
                                   pairs[k].name \in loaders,
                                   st[pairs[k].name], k \notin unreadable)]]
    IN SelectSeq(result, LAMBDA p : p.records # <<>>)

\* Faults that hit the work on one date are explored on the dates less than
\* FaultSpan days from either end of the range of the run.
FaultSpan == 1

FaultDate(d, start, end) == d - start < FaultSpan \/ end - d < FaultSpan

\* The positions of the pairs whose transformation reads the watermark.
WatermarkReads(pairs, loaders) ==
    {k \in 1..Len(pairs) :
        /\ pairs[k].name \in Transformers
        /\ pairs[k].name \in loaders
        /\ transform_records(pairs[k].name, pairs[k].records) # <<>>}

\* The ways watermark reads can fail in one transformation loop: none, one
\* read, or every read of one stream (its table cannot be read).
ReadFaultChoices(pairs, loaders, start, end) ==
    {{}} \cup {{k} : k \in {j \in WatermarkReads(pairs, loaders) :
                                FaultDate(pairs[j].records[1].dateTime[1],
                                          start, end)}}
         \cup {{k \in WatermarkReads(pairs, loaders) : pairs[k].name = s} :
                 s \in loaders}

\* ------------------------------------------------------------------ loading
\* INSERT without a conflict clause on a table that had no unique key: the
\* row is added beside the old one.
RECURSIVE append_rows(_, _)
append_rows(rows, batch) ==
    IF batch = <<>>
    THEN rows
    ELSE append_rows(rows \cup {Head(batch)}, Tail(batch))

\* The statements of _upsert_batch in order: INSERT ... ON CONFLICT
\* (timestamp) DO UPDATE SET value = EXCLUDED.value.
RECURSIVE upsert_rows(_, _)
upsert_rows(rows, batch) ==
    IF batch = <<>>
    THEN rows
    ELSE upsert_rows({r \in rows : r.timestamp # Head(batch).timestamp}
                       \cup {Head(batch)},
                     Tail(batch))

\* The statements of _insert_batch in order: a plain INSERT raises on a key
\* the primary key already holds (None), else adds the row.
RECURSIVE insert_rows(_, _)
insert_rows(rows, batch) ==
    IF batch = <<>>
    THEN Some(rows)
    ELSE IF \E r \in rows : r.timestamp = Head(batch).timestamp
         THEN None
         ELSE insert_rows(rows \cup {Head(batch)}, Tail(batch))

\* A mutated batch function without a transaction: the statements before the
\* one that raises stay in the table.
process_batch_partial(rows, batch, upsert_mode, row_fails) ==
    IF row_fails
    THEN [result |-> FALSE,
          rows   |-> upsert_rows(rows, SubSeq(batch, 1, Len(batch) - 1))]
    ELSE IF upsert_mode
         THEN [result |-> TRUE, rows |-> upsert_rows(rows, batch)]
         ELSE LET ins == insert_rows(rows, batch)
              IN IF ins = None
                 THEN [result |-> FALSE, rows |-> rows]
                 ELSE [result |-> TRUE, rows |-> ins[1]]

\* _upsert_batch / _insert_batch inside atomic_operation: the rows after the
\* transaction and the value the batch function returns.  row_fails says that
\* a statement of the batch raises (constraint violation, lost connection).
process_batch(rows, batch, upsert_mode, row_fails) ==
    IF row_fails
    THEN [result |-> FALSE, rows |-> rows]
    ELSE IF upsert_mode
         THEN [result |-> TRUE, rows |-> upsert_rows(rows, batch)]
         ELSE LET ins == insert_rows(rows, batch)
              IN IF ins = None
                 THEN [result |-> FALSE, rows |-> rows]
                 ELSE [result |-> TRUE, rows |-> ins[1]]

\* The batch size load_records passes to _batch_process.
batch_size(name) ==
    IF name = INTRADAY THEN IntradayBatchSize ELSE SummaryBatchSize

\* A mutated slice that runs one record into the next batch.
batch_slice_overlapping(records, i, size) ==
    SubSeq(records, i + 1,
           IF i + size + 1 > Len(records) THEN Len(records) ELSE i + size + 1)

\* records[i:i + batch_size] (i counted from 0).
batch_slice(records, i, size) ==
    SubSeq(records, i + 1, IF i + size > Len(records) THEN Len(records) ELSE i + size)

\* ------------------------------------------------------------------- state
VARIABLES
    today,                \* the date datetime.now() gives
    store,                \* the rows of each stream's table
    cfg,                  \* settings and registered loaders of the process
    pipeline_stats,       \* ETLPipeline.pipeline_stats
    pc,                   \* position of the pipeline inside run()
    range,                \* (start_date, end_date) of the run
    all_schema_records,   \* execute_pipeline: extracted (schema, records) pairs
    all_transformed_data, \* execute_pipeline: transformed sets to load
    li,                   \* index of the transformed set being loaded
    bi,                   \* offset i of _batch_process in the current load
    loading_stats,        \* BaseLoader.loading_stats of the current load
    ret,                  \* what execute_pipeline and run returned last
    runs,                 \* run() calls so far
    faults,               \* environment faults so far
    phases,               \* steps the current run has performed
    loadLog,              \* load_records calls of the current run
    batchLog,             \* batches of the current load_records call
    committed,            \* rows committed by the current run
    yielded,              \* timestamps of every record an extractor yielded
    lastWritten,          \* the row last written for each key
    overwritten,          \* rows replaced by a row of another value
    setupFailed,          \* loaders whose setup_database failed in this run
    missingObs,           \* (date, stream) pairs with no day record in this run
    proc,                 \* the process: run() calls on its pipeline, exit status
    fpc, fin, fout        \* a function applied on its own: input and output

vars == << today, store, cfg, pipeline_stats, pc, range, all_schema_records,
           all_transformed_data, li, bi, loading_stats, ret, runs, faults,
           phases, loadLog, batchLog, committed, yielded, lastWritten,
           overwritten, setupFailed, missingObs, proc, fpc, fin, fout >>

\* ETLPipeline.__init__.
InitStats == [records_processed |-> 0, records_loaded |-> 0, success |-> FALSE]

\* BaseLoader.reset_stats.
ResetLoadingStats == [batches_processed |-> 0, batches_failed |-> 0,
                      inserted_records |-> 0, failed_records |-> 0]

\* Settings() in a clean environment, with the loaders main() registers:
\* START_DATE and END_DATE unset, seed 0.  UPSERT_MODE is always True.
DefaultConfig == [START_DATE  |-> None,
                  END_DATE    |-> None,
                  UPSERT_MODE |-> TRUE,
                  DATA_SEED   |-> 0,
                  loaders     |-> Streams]

\* The settings with START_DATE set to day 0 in the environment.
StartConfig == [DefaultConfig EXCEPT !.START_DATE = Some(0)]

\* The configurations explored: the default one, the one with a start date,
\* and the variants of the latter with another seed, with a custom range
\* (END_DATE day 1), and with no loader registered for the summary stream.
Configs == { DefaultConfig,
             StartConfig,
             [StartConfig EXCEPT !.DATA_SEED = 1],
             [StartConfig EXCEPT !.END_DATE = Some(1)],
             [StartConfig EXCEPT !.loaders = {INTRADAY}] }

NoRet == [execute_pipeline |-> "none", run |-> "none"]

\* A process that has constructed its pipeline and not called run() yet.
NewProcess == [calls |-> 0, exit |-> None]

EmptyTables == [s \in Streams |-> {}]

PipelineInit ==
    /\ today = 0
    /\ store = EmptyTables
    /\ pipeline_stats = InitStats
    /\ pc = "idle"
    /\ range = None
    /\ all_schema_records = <<>>
    /\ all_transformed_data = <<>>
    /\ li = 0
    /\ bi = 0
    /\ loading_stats = ResetLoadingStats
    /\ ret = NoRet
    /\ runs = 0
    /\ faults = 0
    /\ phases = {}
    /\ loadLog = <<>>
    /\ batchLog = <<>>
    /\ committed = EmptyTables
    /\ yielded = EmptyTables
    /\ lastWritten = EmptyTables
    /\ overwritten = EmptyTables
    /\ setupFailed = {}
    /\ missingObs = {}
    /\ proc = NewProcess

Init ==
    /\ PipelineInit
    /\ cfg \in Configs
    /\ fpc = "none"
    /\ fin = None
    /\ fout = None

funcVars == << fpc, fin, fout >>
obsVars == << committed, yielded, lastWritten, overwritten >>
envVars == << setupFailed, missingObs >>
runVars == << range, all_schema_records, all_transformed_data, li, bi,
              loading_stats, loadLog, batchLog >>

\* settings.START_DATE / END_DATE name a custom range when both are set, and
\* the loaders are visited in registration order.
LoaderOrder(c) == SelectSeq(RegistrationOrder, LAMBDA l : l \in c.loaders)

\* One fault more may be injected.
MayFault == faults < MaxFaults

\* A fault may hit the work on date d of the run in progress.
MayFaultOn(d) == MayFault /\ FaultDate(d, range[1].start, range[1].end)

\* ----------------------------------------------------------------- actions
\* The clock moves on between two runs.
Tick ==
    /\ pc = "idle"
    /\ today < MaxDay
    /\ today' = today + 1
    /\ UNCHANGED << store, cfg, pipeline_stats, pc, ret, runs, faults, phases >>
    /\ UNCHANGED << runVars, obsVars, envVars, funcVars, proc >>

\* A new process: main() reads the settings and constructs a fresh ETLPipeline
\* and fresh loaders; nothing of an earlier run is left but the store.
Construct ==
    /\ pc = "idle"
    /\ ret.run # "none"
    /\ runs < MaxRuns
    /\ cfg' \in Configs
    /\ pipeline_stats' = InitStats
    /\ ret' = NoRet
    /\ phases' = {}
    /\ range' = None
    /\ all_schema_records' = <<>>
    /\ all_transformed_data' = <<>>
    /\ li' = 0
    /\ bi' = 0
    /\ loading_stats' = ResetLoadingStats
    /\ loadLog' = <<>>
    /\ batchLog' = <<>>
    /\ committed' = EmptyTables
    /\ setupFailed' = {}
    /\ missingObs' = {}
    /\ proc' = NewProcess
    /\ UNCHANGED << today, store, pc, runs, faults >>
    /\ UNCHANGED << yielded, lastWritten, overwritten, funcVars >>

\* A mutated preflight that returns after the first loader.
run_pre_ingestion_checks_first(order, failing) ==
    order = <<>> \/ order[1] \notin failing

\* ETLPipeline.run_pre_ingestion_checks: setup_database of every loader in
\* turn; False as soon as one fails or raises.  (The extractors registered are
\* objects, so the availability check passes.)
run_pre_ingestion_checks(order, failing) ==
    \A i \in 1..Len(order) : order[i] \notin failing

\* run() up to the end of run_pre_ingestion_checks; a failed check makes run
\* return False at once.
RunPreflight ==
    /\ pc = "idle"
    /\ proc.exit = None
    /\ runs < MaxRuns
    /\ runs' = runs + 1
    /\ proc' = [proc EXCEPT !.calls = @ + 1]
    /\ phases' = {}
    /\ loadLog' = <<>>
    /\ batchLog' = <<>>
    /\ committed' = EmptyTables
    /\ missingObs' = {}
    /\ range' = None
    /\ all_schema_records' = <<>>
    /\ all_transformed_data' = <<>>
    /\ li' = 0
    /\ bi' = 0
    /\ \E failing \in SUBSET cfg.loaders :
          /\ Cardinality(failing) <= 1
          /\ failing # {} => MayFault
          /\ faults' = IF failing # {} THEN faults + 1 ELSE faults
          /\ setupFailed' = failing
          /\ IF run_pre_ingestion_checks(LoaderOrder(cfg), failing)
             THEN /\ pc' = "range"
                  /\ ret' = NoRet
             ELSE /\ pc' = "idle"
                  /\ ret' = [execute_pipeline |-> "none", run |-> "false"]
    /\ UNCHANGED << today, store, cfg, pipeline_stats, loading_stats >>
    /\ UNCHANGED << yielded, lastWritten, overwritten, funcVars >>

\* run(): determine_date_range.  Each loader's table may be unreadable.
DetermineDateRange ==
    /\ pc = "range"
    /\ \E unreadable \in SUBSET cfg.loaders :
          /\ Cardinality(unreadable) <= 1
          /\ unreadable # {} => MayFault
          /\ faults' = IF unreadable # {} THEN faults + 1 ELSE faults
          /\ range' = Some(determine_date_range(
                 LoaderOrder(cfg),
                 [l \in Streams |->
                     get_last_processed_timestamp(store[l], l \notin unreadable)],
                 today, cfg.START_DATE, cfg.END_DATE))
    /\ phases' = phases \cup {"range"}
    /\ pc' = "extract"
    /\ UNCHANGED << today, store, cfg, pipeline_stats, ret, runs >>
    /\ UNCHANGED << all_schema_records, all_transformed_data, li, bi,
                    loading_stats, loadLog, batchLog, obsVars, envVars, funcVars, proc >>

B2S(b) == IF b THEN "true" ELSE "false"

\* The (date, stream) pairs of a run from start to end.
DayPairs(start, end) == (start..end) \X Streams

\* The (date, stream) pairs of a run for which get_day_record gives nothing:
\* the cache file of the stream cannot be loaded (absent), or the day record
\* at index calculate_shift(date) of its cache is broken or empty.  A broken
\* day record is missing for every date of the run that shifts to its index.
MissingFor(start, end, absent, broken) ==
    {p \in DayPairs(start, end) :
        \/ p[2] \in absent
        \/ <<calculate_shift(p[1]), p[2]>> \in broken}

\* The ways day records can be missing in one run: none, one broken day
\* record in the cache of one stream, the cache file of one stream absent, or
\* both cache files absent.
MissingChoices(start, end) ==
    {MissingFor(start, end, {}, {})}
      \cup {MissingFor(start, end, {}, {<<calculate_shift(q[1]), q[2]>>}) :
               q \in {p \in DayPairs(start, end) : FaultDate(p[1], start, end)}}
      \cup {MissingFor(start, end, {s}, {}) : s \in Streams}
      \cup {MissingFor(start, end, Streams, {})}

\* The timestamps of the records of stream s among extracted pairs.
YieldedTs(pairs, s) ==
    UNION {LET t == transform_records(pairs[k].name, pairs[k].records)
           IN {t[i].timestamp : i \in 1..Len(t)} :
              k \in {j \in 1..Len(pairs) : pairs[j].name = s}}

\* The row last written for each key after writing batch in order.
RECURSIVE NoteWrites(_, _)
NoteWrites(rows, batch) ==
    IF batch = <<>>
    THEN rows
    ELSE NoteWrites({r \in rows : r.timestamp # Head(batch).timestamp}
                      \cup {Head(batch)},
                    Tail(batch))

\* execute_pipeline, step 1: the extraction loop, then the check that anything
\* was retrieved; run() returns pipeline_stats['success'] whatever
\* execute_pipeline returned.
Extract ==
    /\ pc = "extract"
    /\ LET start == range[1].start
           end == range[1].end
           num_days == end - start + 1
       IN \E missing \in MissingChoices(start, end) :
             /\ missing # {} => MayFault
             /\ faults' = IF missing # {} THEN faults + 1 ELSE faults
             /\ missingObs' = missing
             /\ all_schema_records' =
                    extract_all(0, num_days, start, cfg.DATA_SEED, missing)
    /\ yielded' = [s \in Streams |->
                     yielded[s] \cup YieldedTs(all_schema_records', s)]
    /\ phases' = phases \cup {"extract"}
    /\ IF all_schema_records' = <<>>
       THEN /\ pc' = "idle"
            /\ ret' = [execute_pipeline |-> "false",
                       run |-> B2S(pipeline_stats.success)]
       ELSE /\ pc' = "transform"
            /\ ret' = ret
    /\ UNCHANGED << today, store, cfg, pipeline_stats, runs, range >>
    /\ UNCHANGED << all_transformed_data, li, bi, loading_stats, loadLog,
                    batchLog, committed, lastWritten, overwritten, setupFailed,
                    funcVars, proc >>

\* A mutated update that leaves records_loaded as an earlier run set it.
stats_no_new_data_stale(stats, total_records) ==
    [stats EXCEPT !.records_processed = total_records, !.success = TRUE]

\* The pipeline_stats.update of the "no new records" exit.
stats_no_new_data(stats, total_records) ==
    [stats EXCEPT !.records_processed = total_records,
                  !.records_loaded = 0,
                  !.success = TRUE]

\* The pipeline_stats.update after the loading loop.
stats_loaded(stats, total_records, total_loaded) ==
    [stats EXCEPT !.records_processed = total_records,
                  !.records_loaded = total_loaded,
                  !.success = TRUE]

\* execute_pipeline, step 2: the transformation loop with delta filtering, then
\* the "no new records" exit.
Transform ==
    /\ pc = "transform"
    /\ \E unreadable \in ReadFaultChoices(all_schema_records, cfg.loaders,
                                         range[1].start, range[1].end) :
          /\ unreadable # {} => MayFault
          /\ faults' = IF unreadable # {} THEN faults + 1 ELSE faults
          /\ all_transformed_data' =
                 transform_all(all_schema_records, cfg.loaders, store, unreadable)
    /\ phases' = phases \cup {"transform"}
    /\ IF all_transformed_data' = <<>>
       THEN /\ pipeline_stats' =
                   stats_no_new_data(pipeline_stats, SumLen(all_schema_records))
            /\ pc' = "idle"
            /\ li' = 0
            /\ ret' = [execute_pipeline |-> "true",
                       run |-> B2S(pipeline_stats'.success)]
       ELSE /\ pipeline_stats' = pipeline_stats
            /\ pc' = "load"
            /\ li' = 1
            /\ ret' = ret
    /\ UNCHANGED << today, store, cfg, runs, range, all_schema_records >>
    /\ UNCHANGED << bi, loading_stats, loadLog, batchLog, obsVars, envVars,
                    funcVars, proc >>

\* execute_pipeline, step 3, one iteration of the loading loop up to the call
\* of load_records: a set without a loader is skipped; load_records returns
\* False when it raises outside its batches, and the loop breaks.
LoadStart ==
    /\ pc = "load"
    /\ li <= Len(all_transformed_data)
    /\ LET name == all_transformed_data[li].name
       IN IF name \notin cfg.loaders
          THEN /\ li' = li + 1
               /\ UNCHANGED << pc, bi, loading_stats, loadLog, batchLog, ret,
                               faults >>
          ELSE \E load_raises \in BOOLEAN :
                  /\ load_raises =>
                        MayFaultOn(all_transformed_data[li].records[1].timestamp
                                     \div PerDay)
                  /\ faults' = IF load_raises THEN faults + 1 ELSE faults
                  /\ loading_stats' = ResetLoadingStats
                  /\ batchLog' = <<>>
                  /\ bi' = 0
                  /\ li' = li
                  /\ IF load_raises
                     THEN /\ loadLog' = Append(loadLog,
                                 [name |-> name, index |-> li, result |-> "false",
                                  verified |-> "none"])
                          /\ pc' = "idle"
                          /\ ret' = [execute_pipeline |-> "false",
                                     run |-> B2S(pipeline_stats.success)]
                     ELSE /\ loadLog' = Append(loadLog,
                                 [name |-> name, index |-> li, result |-> "pending",
                                  verified |-> "none"])
                          /\ pc' = "batch"
                          /\ ret' = ret
    /\ phases' = phases \cup {"load"}
    /\ UNCHANGED << today, store, cfg, pipeline_stats, runs, range >>
    /\ UNCHANGED << all_schema_records, all_transformed_data, obsVars, envVars,
                    funcVars, proc >>

\* verify_loading: the row count of the table is at least expected_count;
\* False when the count cannot be read.
verify_loading(rows, expected_count, readable) ==
    readable /\ Cardinality(rows) >= expected_count

\* A mutated loading loop that treats a failed verification as a failed load.
loading_success_verified(success, verified) ==
    success /\ verified

\* The loading loop of execute_pipeline after load_records and verify_loading
\* of one transformed set: loading_success stays True unless load_records
\* returned False; a failed verification is logged as a warning.
loading_success(success, verified) ==
    success

\* _batch_process, one iteration: the batch function runs in one transaction;
\* a False result is counted and the loop goes on.  After the last batch
\* _batch_process and load_records return True, execute_pipeline calls
\* verify_loading, whose result is only logged, and the loading loop moves to
\* the next transformed set.
LoadBatch ==
    /\ pc = "batch"
    /\ LET td == all_transformed_data[li]
           size == batch_size(td.name)
           batch == batch_slice(td.records, bi, size)
       IN \E row_fails \in BOOLEAN, count_fails \in BOOLEAN :
             /\ ~(row_fails /\ count_fails)
             /\ (row_fails \/ count_fails) =>
                   MayFaultOn(td.records[1].timestamp \div PerDay)
             /\ count_fails => bi + size >= Len(td.records)
             /\ faults' = IF row_fails \/ count_fails THEN faults + 1 ELSE faults
             /\ LET res == process_batch(store[td.name], batch,
                                         cfg.UPSERT_MODE, row_fails)
                IN /\ store' = [store EXCEPT ![td.name] = res.rows]
                   /\ loading_stats' =
                        IF res.result
                        THEN [loading_stats EXCEPT
                                !.batches_processed = @ + 1,
                                !.inserted_records = @ + Len(batch)]
                        ELSE [loading_stats EXCEPT
                                !.batches_failed = @ + 1,
                                !.failed_records = @ + Len(batch)]
                   /\ batchLog' = Append(batchLog,
                                    [i |-> bi, result |-> res.result])
                   /\ committed' =
                        IF res.result
                        THEN [committed EXCEPT ![td.name] =
                                 @ \cup {batch[k] : k \in 1..Len(batch)}]
                        ELSE committed
                   /\ lastWritten' =
                        IF res.result
                        THEN [lastWritten EXCEPT ![td.name] = NoteWrites(@, batch)]
                        ELSE lastWritten
                   /\ overwritten' =
                        IF res.result
                        THEN [overwritten EXCEPT ![td.name] = @ \cup
                                {r \in store[td.name] :
                                   \E k \in 1..Len(batch) :
                                      /\ batch[k].timestamp = r.timestamp
                                      /\ batch[k] # r}]
                        ELSE overwritten
             /\ IF bi + size >= Len(td.records)
                THEN LET verified == verify_loading(store'[td.name],
                                                    Len(td.records), ~count_fails)
                     IN /\ loadLog' = [loadLog EXCEPT
                               ![Len(loadLog)].result = "true",
                               ![Len(loadLog)].verified = B2S(verified)]
                        /\ bi' = 0
                        /\ IF loading_success(TRUE, verified)
                           THEN /\ li' = li + 1
                                /\ pc' = "load"
                                /\ ret' = ret
                           ELSE /\ li' = li
                                /\ pc' = "idle"
                                /\ ret' = [execute_pipeline |-> "false",
                                           run |-> B2S(pipeline_stats.success)]
                ELSE /\ loadLog' = loadLog
                     /\ li' = li
                     /\ bi' = bi + size
                     /\ pc' = "batch"
                     /\ ret' = ret
    /\ UNCHANGED << today, cfg, pipeline_stats, runs, phases, range >>
    /\ UNCHANGED << all_schema_records, all_transformed_data, yielded, envVars,
                    funcVars, proc >>

\* execute_pipeline after the loading loop ran to its end: the statistics are
\* updated and True is returned; run() returns pipeline_stats['success'].
FinishLoading ==
    /\ pc = "load"
    /\ li > Len(all_transformed_data)
    /\ pipeline_stats' =
          stats_loaded(pipeline_stats, SumLen(all_schema_records),
                       SumLen(all_transformed_data))
    /\ ret' = [execute_pipeline |-> "true", run |-> B2S(pipeline_stats'.success)]
    /\ pc' = "idle"
    /\ UNCHANGED << today, store, cfg, runs, faults, phases >>
    /\ UNCHANGED << runVars, obsVars, envVars, funcVars, proc >>

\* The exit status main() passes to sys.exit for what run() returned and the
\* records_loaded statistic of its pipeline.
main_exit(success, records_loaded) ==
    IF success
    THEN IF records_loaded > 0 THEN 0 ELSE 0
    ELSE 1

\* main() after its single call of run(): the process exits.
Exit ==
    /\ pc = "idle"
    /\ proc.calls = 1
    /\ proc.exit = None
    /\ ret.run # "none"
    /\ proc' = [proc EXCEPT !.exit =
                   Some(main_exit(ret.run = "true", pipeline_stats.records_loaded))]
    /\ UNCHANGED << today, store, cfg, pipeline_stats, pc, ret, runs, faults,
                    phases >>
    /\ UNCHANGED << runVars, obsVars, envVars, funcVars >>

Next ==
    \/ Tick
    \/ Construct
    \/ RunPreflight
    \/ DetermineDateRange
    \/ Extract
    \/ Transform
    \/ LoadStart
    \/ LoadBatch
    \/ FinishLoading
    \/ Exit

Spec == Init /\ [][Next]_vars

TypeOK ==
    /\ today \in 0..MaxDay
    /\ pc \in {"idle", "range", "extract", "transform", "load", "batch"}
    /\ runs \in 0..MaxRuns
    /\ faults \in 0..MaxFaults

\* ------------------------------------------- the delta filter on its own
FilterRecords == [timestamp : 0..MaxTs, value : {60, 61}]

FilterInputs ==
    [records : UNION {[1..n -> FilterRecords] : n \in 0..MaxLen},
     last    : {None} \cup {Some(t) : t \in 0..MaxTs}]

InitFilter ==
    /\ PipelineInit
    /\ cfg = DefaultConfig
    /\ fpc = "filter"
    /\ fin \in FilterInputs
    /\ fout = None

\* filter_already_processed_records applied once, and applied again to its
\* own result.
FilterStep ==
    /\ fpc = "filter"
    /\ fpc' = "filtered"
    /\ fout' = [once  |-> filter_already_processed_records(fin.records, fin.last),
                twice |-> filter_already_processed_records(
                             filter_already_processed_records(fin.records, fin.last),
                             fin.last)]
    /\ UNCHANGED << today, store, cfg, pipeline_stats, pc, ret, runs, faults,
                    phases, runVars, obsVars, envVars, proc, fin >>

SpecFilter == InitFilter /\ [][FilterStep]_vars

\* ------------------------------------------- the cyclic shift on its own
\* Dates up to ShiftSpan days before and after the base date.
ShiftSpan == 60

ShiftInputs == (BaseDay - ShiftSpan)..(BaseDay + ShiftSpan)

InitShift ==
    /\ PipelineInit
    /\ cfg = DefaultConfig
    /\ fpc = "shift"
    /\ fin \in ShiftInputs
    /\ fout = None

\* calculate_shift applied to a date and to the date one cycle later, and the
\* first sample of the day record get_day_record looks up for each.
ShiftStep ==
    /\ fpc = "shift"
    /\ fpc' = "shifted"
    /\ fout' = [shift  |-> calculate_shift(fin),
                later  |-> calculate_shift(fin + CycleLength),
                sample |-> CachedValue(calculate_shift(fin), 0),
                replay |-> CachedValue(calculate_shift(fin + CycleLength), 0)]
    /\ UNCHANGED << today, store, cfg, pipeline_stats, pc, ret, runs, faults,
                    phases, runVars, obsVars, envVars, proc, fin >>

SpecShift == InitShift /\ [][ShiftStep]_vars

\* ------------------------------------- the intraday transformer on its own
\* Candidate records per input.
MaxCandidates == 3

\* Candidate records: each of the date and time parts absent, present and
\* unparsable, or well formed; the value absent or present.
CandidateRecords ==
    [dateTime : {None, Some(Unparsable), Some(0)},
     time     : {None, Some(1)},
     value    : {None, Some(Unparsable), Some(60)}]
    \cup
    [dateTime : {None, Some(Unparsable), Some(0)},
     time     : {None, Some(1)}]

TransformInputs == UNION {[1..n -> CandidateRecords] : n \in 0..MaxCandidates}

InitTransform ==
    /\ PipelineInit
    /\ cfg = DefaultConfig
    /\ fpc = "transform"
    /\ fin \in TransformInputs
    /\ fout = None

\* transform_records of either HeartRateTransformer applied to the input.
TransformStep ==
    /\ fpc = "transform"
    /\ fpc' = "transformed"
    /\ fout' = [etl       |-> transform_records_etl(fin),
                ingestion |-> transform_records_ingestion(fin)]
    /\ UNCHANGED << today, store, cfg, pipeline_stats, pc, ret, runs, faults,
                    phases, runVars, obsVars, envVars, proc, fin >>

SpecTransform == InitTransform /\ [][TransformStep]_vars

\* ------------------------------------------- range discovery on its own
RangeWatermarks ==
    {None} \cup {Some(d * PerDay + t) : d \in 0..RangeDays, t \in {0, PerDay - 1}}

RangeInputs ==
    [wm         : [Streams -> RangeWatermarks],
     now        : 0..RangeDays,
     order      : {<<INTRADAY, SUMMARY>>, <<SUMMARY, INTRADAY>>},
     START_DATE : {None, Some(0)},
     END_DATE   : {None, Some(1)}]

InitRange ==
    /\ PipelineInit
    /\ cfg = DefaultConfig
    /\ fpc = "range"
    /\ fin \in RangeInputs
    /\ fout = None

\* determine_date_range applied to the watermarks the loaders return.
RangeStep ==
    /\ fpc = "range"
    /\ fpc' = "ranged"
    /\ fout' = determine_date_range(fin.order, fin.wm, fin.now,
                                    fin.START_DATE, fin.END_DATE)
    /\ UNCHANGED << today, store, cfg, pipeline_stats, pc, ret, runs, faults,
                    phases, runVars, obsVars, envVars, proc, fin >>

SpecRange == InitRange /\ [][RangeStep]_vars

\* ------------------------------------------------------------ the query API
\* Times of the query API are whole seconds.
SecondsPerMinute == 60
SecondsPerHour == 3600
SecondsPerDay == 86400

T1M == "activities_heart_intraday_1m"
T1H == "activities_heart_intraday_1h"
T1D == "activities_heart_intraday_1d"

\* A mutated resolution that compares the span in seconds with the minute
\* threshold.
resolve_interval_seconds(start_date, end_date) ==
    LET seconds == end_date - start_date
    IN IF seconds < 20
       THEN [table |-> INTRADAY, interval |-> "raw",
             time_column |-> "timestamp", value_column |-> "value"]
       ELSE IF seconds < 1 * SecondsPerHour
       THEN [table |-> T1M, interval |-> "1m",
             time_column |-> "minute", value_column |-> "avg_heart_rate"]
       ELSE IF seconds <= 7 * SecondsPerDay
       THEN [table |-> T1H, interval |-> "1h",
             time_column |-> "hour", value_column |-> "avg_heart_rate"]
       ELSE [table |-> T1D, interval |-> "1d",
             time_column |-> "day", value_column |-> "avg_heart_rate"]

\* A mutated resolution whose middle branches return each other's table.
resolve_interval_swapped(start_date, end_date) ==
    LET seconds == end_date - start_date
    IN IF seconds < 20 * SecondsPerMinute
       THEN [table |-> INTRADAY, interval |-> "raw",
             time_column |-> "timestamp", value_column |-> "value"]
       ELSE IF seconds < 1 * SecondsPerHour
       THEN [table |-> T1H, interval |-> "1h",
             time_column |-> "hour", value_column |-> "avg_heart_rate"]
       ELSE IF seconds <= 7 * SecondsPerDay
       THEN [table |-> T1M, interval |-> "1m",
             time_column |-> "minute", value_column |-> "avg_heart_rate"]
       ELSE [table |-> T1D, interval |-> "1d",
             time_column |-> "day", value_column |-> "avg_heart_rate"]

\* TimeSeriesService.resolve_interval.  minutes = seconds / 60 < 20,
\* hours = seconds / 3600 < 1 and days = seconds / 86400 <= 7 are compared
\* after multiplying out the division.
resolve_interval(start_date, end_date) ==
    LET seconds == end_date - start_date
    IN IF seconds < 20 * SecondsPerMinute
       THEN [table |-> INTRADAY, interval |-> "raw",
             time_column |-> "timestamp", value_column |-> "value"]
       ELSE IF seconds < 1 * SecondsPerHour
       THEN [table |-> T1M, interval |-> "1m",
             time_column |-> "minute", value_column |-> "avg_heart_rate"]
       ELSE IF seconds <= 7 * SecondsPerDay
       THEN [table |-> T1H, interval |-> "1h",
             time_column |-> "hour", value_column |-> "avg_heart_rate"]
       ELSE [table |-> T1D, interval |-> "1d",
             time_column |-> "day", value_column |-> "avg_heart_rate"]

\* A query parameter that is given and not empty (Python truthiness).
Truthy(opt) == opt # None /\ opt[1] # ""

\* interval_map of build_flexible_query: token to time_bucket width.
interval_map ==
    [t \in {"1s", "1m", "1h", "1d"} |->
        CASE t = "1s" -> "1 second"
          [] t = "1m" -> "1 minute"
          [] t = "1h" -> "1 hour"
          [] t = "1d" -> "1 day"]

\* TimeSeriesService.build_flexible_query: a time_bucket average over the
\* columns of the chosen table; an unknown token raises HTTPException(400).
build_flexible_query(table_config, requested_interval, start_date, end_date, user_id) ==
    IF requested_interval \notin DOMAIN interval_map
    THEN [raised |-> Some(400), query |-> None]
    ELSE [raised |-> None,
          query  |-> Some([bucket       |-> Some(interval_map[requested_interval]),
                           table        |-> table_config.table,
                           time_column  |-> table_config.time_column,
                           value_column |-> table_config.value_column,
                           start        |-> start_date,
                           end          |-> end_date,
                           user_id      |-> user_id])]

\* TimeSeriesService.get_table_config_for_metric.
get_table_config_for_metric(metric) ==
    IF metric = SUMMARY
    THEN [raised |-> None,
          config |-> Some([table |-> SUMMARY, interval |-> "summary",
                           time_column |-> "timestamp",
                           value_column |-> "resting_heart_rate"])]
    ELSE IF metric \in {INTRADAY, T1M, T1H, T1D}
    THEN [raised |-> None,
          config |-> Some(
             CASE metric = INTRADAY ->
                    [table |-> metric, interval |-> "raw",
                     time_column |-> "timestamp", value_column |-> "value"]
               [] metric = T1M ->
                    [table |-> metric, interval |-> "1m",
                     time_column |-> "minute", value_column |-> "avg_heart_rate"]
               [] metric = T1H ->
                    [table |-> metric, interval |-> "1h",
                     time_column |-> "hour", value_column |-> "avg_heart_rate"]
               [] metric = T1D ->
                    [table |-> metric, interval |-> "1d",
                     time_column |-> "day", value_column |-> "avg_heart_rate"])]
    ELSE [raised |-> Some(400), config |-> None]

\* Width in seconds of a time_bucket interval.
BucketSeconds(width) ==
    CASE width = "1 second" -> 1
      [] width = "1 minute" -> SecondsPerMinute
      [] width = "1 hour" -> SecondsPerHour
      [] width = "1 day" -> SecondsPerDay

time_bucket(width, t) == (t \div BucketSeconds(width)) * BucketSeconds(width)

RECURSIVE SumValues(_)
SumValues(rows) ==
    IF rows = {}
    THEN 0
    ELSE LET r == CHOOSE x \in rows : TRUE
         IN r.value + SumValues(rows \ {r})

\* ROUND(AVG(value)::numeric, 2) of a non-empty set of rows; values are
\* hundredths.
RoundAvg(rows) ==
    (2 * SumValues(rows) + Cardinality(rows)) \div (2 * Cardinality(rows))

\* GROUP BY time_bucket(width, t), user_id over rows.
BucketRows(rows, width) ==
    {[t       |-> time_bucket(width, r.t),
      value   |-> RoundAvg({x \in rows : /\ x.user_id = r.user_id
                                         /\ time_bucket(width, x.t)
                                              = time_bucket(width, r.t)}),
      user_id |-> r.user_id] : r \in rows}

\* Rows in ascending time order, as ORDER BY returns them.
RECURSIVE OrderByTime(_)
OrderByTime(rows) ==
    IF rows = {}
    THEN <<>>
    ELSE LET first == CHOOSE r \in rows : \A x \in rows : r.t <= x.t
         IN <<[timestamp |-> first.t, value |-> first.value,
               user_id |-> first.user_id]>>
              \o OrderByTime(rows \ {first})

\* The raw rows of the sample database (value in hundredths of a beat).
SampleRaw ==
    {[t |-> 0, value |-> 6000, user_id |-> "user1"],
     [t |-> 1, value |-> 6300, user_id |-> "user1"],
     [t |-> 61, value |-> 6500, user_id |-> "user1"],
     [t |-> 3700, value |-> 7000, user_id |-> "user1"],
     [t |-> 1, value |-> 7100, user_id |-> "user2"],
     [t |-> 90000, value |-> 7300, user_id |-> "user2"],
     [t |-> 2, value |-> 5500, user_id |-> "user3"]}

\* The tables of a database with the given raw rows: the 1m, 1h and 1d
\* continuous aggregates are time_bucket averages of the raw table.
Database(raw) ==
    [table \in {INTRADAY, T1M, T1H, T1D, SUMMARY} |->
        CASE table = INTRADAY -> raw
          [] table = T1M -> BucketRows(raw, "1 minute")
          [] table = T1H -> BucketRows(raw, "1 hour")
          [] table = T1D -> BucketRows(raw, "1 day")
          [] table = SUMMARY -> {[t |-> 0, value |-> 5800, user_id |-> "user1"]}]

\* A raw table whose only row has an empty user id.
BlankUserRaw == {[t |-> 0, value |-> 6000, user_id |-> ""]}

Databases == {Database(SampleRaw), Database({}), Database(BlankUserRaw)}

\* The type of the value column of a table: the raw table is created with
\* value DOUBLE PRECISION, the summary table with resting_heart_rate INTEGER,
\* and the views define avg_heart_rate as ROUND(AVG(value)::numeric, 2).
ColumnType(table) ==
    CASE table = INTRADAY -> "double precision"
      [] table = SUMMARY -> "integer"
      [] OTHER -> "numeric"

\* Whether ROUND(AVG(column), 2) has a function to call: AVG of a double
\* precision column is double precision, and the database has
\* round(numeric, integer) and no round(double precision, integer).
round_avg_defined(column_type) == column_type # "double precision"

\* TimeSeriesService.execute_timeseries_query: the rows the query selects; any
\* error of the connection or the fetch, a bucketed query the database
\* rejects included, is raised as HTTPException(500).
execute_timeseries_query(db, query, fails) ==
    IF fails \/ (query.bucket # None
                   /\ ~round_avg_defined(ColumnType(query.table)))
    THEN [raised |-> Some(500), rows |-> <<>>]
    ELSE LET selected == {r \in db[query.table] : /\ r.t >= query.start
                                                   /\ r.t <= query.end
                                                   /\ r.user_id = query.user_id}
         IN [raised |-> None,
             rows   |-> IF query.bucket = None
                        THEN OrderByTime(selected)
                        ELSE OrderByTime(BucketRows(selected, query.bucket[1]))]

\* TimeSeriesService.get_default_user_id: the user ids it can return (LIMIT 1
\* without an order returns any row's user; the rows explored all have a user
\* id).  A value that is not truthy, no row or an empty id, and any error
\* give "user1".
get_default_user_id(db, fails) ==
    IF fails
    THEN {"user1"}
    ELSE LET results == IF db[INTRADAY] = {}
                        THEN {None}
                        ELSE {Some(r.user_id) : r \in db[INTRADAY]}
         IN {IF Truthy(result) THEN result[1] ELSE "user1" : result \in results}

\* The rows of a result with the interval attached.
WithInterval(rows, interval) ==
    [i \in 1..Len(rows) |->
        [timestamp |-> rows[i].timestamp, value |-> rows[i].value,
         user_id |-> rows[i].user_id, interval |-> interval]]

\* What a call of the service gave: the status it raised (200 when it
\* returned), its rows, the query it built and the number of queries it sent.
Answer(status, data, query, queries) ==
    [status |-> status, data |-> data, query |-> query, queries |-> queries]

\* TimeSeriesService.get_timeseries_data.
get_timeseries_data(db, start_date, end_date, user_id, metric, interval, fails) ==
    LET tc == IF Truthy(metric)
              THEN get_table_config_for_metric(metric[1])
              ELSE [raised |-> None,
                    config |-> Some(resolve_interval(start_date, end_date))]
    IN IF tc.raised # None
       THEN Answer(tc.raised[1], <<>>, None, 0)
       ELSE LET table_config == tc.config[1]
                built ==
                  IF Truthy(interval)
                  THEN build_flexible_query(table_config, interval[1],
                                            start_date, end_date, user_id)
                  ELSE [raised |-> None,
                        query  |-> Some([bucket       |-> None,
                                         table        |-> table_config.table,
                                         time_column  |-> table_config.time_column,
                                         value_column |-> table_config.value_column,
                                         start        |-> start_date,
                                         end          |-> end_date,
                                         user_id      |-> user_id])]
                response_interval ==
                  IF Truthy(interval) THEN interval[1] ELSE table_config.interval
            IN IF built.raised # None
               THEN Answer(built.raised[1], <<>>, None, 0)
               ELSE LET results == execute_timeseries_query(db, built.query[1], fails)
                    IN IF results.raised # None
                       THEN Answer(results.raised[1], <<>>, built.query, 0)
                       ELSE Answer(200,
                                   WithInterval(results.rows, response_interval),
                                   built.query, 1)

\* Limits of the endpoints: the default window, the longest range of a
\* single-user and of a multi-user query, and the most users compared.
DefaultQueryDays == 7
MaxDaysSingle == 365
MaxDaysMulti == 180
MaxUsersCompared == 5

\* A date parameter of a request is absent or a string: the empty string, a
\* string datetime.fromisoformat rejects, or the ISO form of the second t
\* without ("naive") or with ("aware") a UTC offset.
GivenDate(param) == param # None /\ param[1].kind # "empty"

\* A naive datetime at second t, as datetime.now() returns it.
Naive(t) == [kind |-> "naive", t |-> t]

\* The date parsing of both endpoints: now is the clock when the start
\* default is computed, later the clock when the end default is computed.  A
\* string fromisoformat rejects raises ValueError, answered with status 400.
parse_dates(now, later, start_date, end_date) ==
    IF \/ GivenDate(start_date) /\ start_date[1].kind = "bad"
       \/ GivenDate(end_date) /\ end_date[1].kind = "bad"
    THEN [raised |-> Some(400), start_dt |-> None, end_dt |-> None]
    ELSE [raised   |-> None,
          start_dt |-> Some(IF GivenDate(start_date)
                            THEN start_date[1]
                            ELSE Naive(now - DefaultQueryDays * SecondsPerDay)),
          end_dt   |-> Some(IF GivenDate(end_date)
                            THEN end_date[1]
                            ELSE Naive(later))]

\* The range checks of both endpoints: the status raised, if any.  Comparing
\* a naive with an aware datetime raises TypeError outside every handler of
\* the endpoint, which the framework answers with status 500.
validate_range(start_dt, end_dt, max_days) ==
    IF start_dt.kind # end_dt.kind
    THEN Some(500)
    ELSE IF start_dt.t >= end_dt.t
    THEN Some(400)
    ELSE IF (end_dt.t - start_dt.t) \div SecondsPerDay > max_days
         THEN Some(400)
         ELSE None

\* controllers.get_timeseries; db is the database when the data is fetched
\* and default_user what the lookup before it returned.  HTTPExceptions of
\* the service are re-raised; the list the service returns is unpacked into
\* (data, query_info), which raises for any length but 2 and is answered as a
\* server error.
get_timeseries(db, now, later, start_date, end_date, user_id, interval, default_user, lookup_fails, fetch_fails) ==
    LET parsed == parse_dates(now, later, start_date, end_date)
    IN IF parsed.raised # None
       THEN Answer(parsed.raised[1], <<>>, None, 0)
       ELSE LET start_dt == parsed.start_dt[1]
                end_dt == parsed.end_dt[1]
                invalid == validate_range(start_dt, end_dt, MaxDaysSingle)
            IN IF invalid # None
               THEN Answer(invalid[1], <<>>, None, 0)
               ELSE LET uid == IF Truthy(user_id) THEN user_id[1] ELSE default_user
                        lookups == IF Truthy(user_id) \/ lookup_fails THEN 0 ELSE 1
                        a == get_timeseries_data(db, start_dt.t, end_dt.t, uid,
                                                 None, interval, fetch_fails)
                    IN IF a.status # 200
                       THEN Answer(a.status, <<>>, a.query, lookups + a.queries)
                       ELSE IF Len(a.data) = 2
                            THEN Answer(200, a.data[1], a.query,
                                        lookups + a.queries)
                            ELSE Answer(500, <<>>, a.query, lookups + a.queries)

\* Whether get_timeseries gets as far as the lookup of the default user: the
\* dates were accepted and no user id was given.
awaits_default_user(now, later, start_date, end_date, user_id) ==
    LET parsed == parse_dates(now, later, start_date, end_date)
    IN /\ parsed.raised = None
       /\ validate_range(parsed.start_dt[1], parsed.end_dt[1], MaxDaysSingle)
            = None
       /\ ~Truthy(user_id)

\* A string is the sequence of the code points of its characters.
Comma == 44

\* The characters str.strip() removes: those str.isspace() holds for.
Whitespace ==
    (9..13) \cup (28..32) \cup {133, 160, 5760} \cup (8192..8202)
      \cup {8232, 8233, 8239, 8287, 12288}

Chars(str) ==
    CASE str = "user1" -> <<117, 115, 101, 114, 49>>
      [] str = "user2" -> <<117, 115, 101, 114, 50>>
      [] str = "user3" -> <<117, 115, 101, 114, 51>>

RECURSIVE lstrip(_)
lstrip(str) ==
    IF str # <<>> /\ Head(str) \in Whitespace THEN lstrip(Tail(str)) ELSE str

RECURSIVE rstrip(_)
rstrip(str) ==
    IF str # <<>> /\ str[Len(str)] \in Whitespace
    THEN rstrip(SubSeq(str, 1, Len(str) - 1))
    ELSE str

\* str.strip().
strip(str) == rstrip(lstrip(str))

\* str.split(sep) for a separator of one character.
RECURSIVE split(_, _)
split(str, sep) ==
    LET at == {i \in 1..Len(str) : str[i] = sep}
    IN IF at = {}
       THEN <<str>>
       ELSE <<SubSeq(str, 1, Min(at) - 1)>>
              \o split(SubSeq(str, Min(at) + 1, Len(str)), sep)

\* The user ids of the comma-separated parameter: every entry is stripped and
\* the entries that are empty after stripping are dropped; without the
\* parameter, or with the empty string, two default users are queried.
parse_user_ids(user_ids) ==
    IF user_ids # None /\ user_ids[1] # <<>>
    THEN LET entries == split(user_ids[1], Comma)
             stripped == [i \in 1..Len(entries) |-> strip(entries[i])]
         IN SelectSeq(stripped, LAMBDA uid : uid # <<>>)
    ELSE <<Chars("user1"), Chars("user2")>>

\* controllers.get_multi_user_timeseries.  The service has no method
\* execute_multi_user_query, so the call raises AttributeError for every
\* request that passes the checks, and the handler answers whatever is raised
\* there as a server error.
get_multi_user_timeseries(now, later, start_date, end_date, user_ids, interval) ==
    LET parsed == parse_dates(now, later, start_date, end_date)
    IN IF parsed.raised # None
       THEN Answer(parsed.raised[1], <<>>, None, 0)
       ELSE LET invalid == validate_range(parsed.start_dt[1], parsed.end_dt[1],
                                          MaxDaysMulti)
                user_id_list == parse_user_ids(user_ids)
            IN IF invalid # None
               THEN Answer(invalid[1], <<>>, None, 0)
               ELSE IF Len(user_id_list) > MaxUsersCompared
                         \/ Len(user_id_list) = 0
               THEN Answer(400, <<>>, None, 0)
               ELSE Answer(500, <<>>, None, 0)

\* --------------------------------------- interval resolution on its own
\* Start times of the queries explored are 0..MaxStart.
MaxStart == 2
\* Spans explored lie within MaxSlack seconds of a boundary.
MaxSlack == 1

\* The spans at which the code or its documentation switches tables, and the
\* spans the specification names.
SpanBoundaries ==
    {90, 2 * SecondsPerMinute, 20 * SecondsPerMinute, SecondsPerHour,
     2 * SecondsPerHour, 3 * SecondsPerDay, 7 * SecondsPerDay,
     8 * SecondsPerDay}

SpanChoices ==
    {b + d : b \in SpanBoundaries, d \in (0 - MaxSlack)..MaxSlack} \cup {1}

ResolveInputs ==
    [a : [start : 0..MaxStart, span : SpanChoices],
     b : [start : 0..MaxStart, span : SpanChoices]]

InitResolve ==
    /\ PipelineInit
    /\ cfg = DefaultConfig
    /\ fpc = "resolve"
    /\ fin \in ResolveInputs
    /\ fout = None

\* resolve_interval applied to two queries.
ResolveStep ==
    /\ fpc = "resolve"
    /\ fpc' = "resolved"
    /\ fout' = [a |-> resolve_interval(fin.a.start, fin.a.start + fin.a.span),
                b |-> resolve_interval(fin.b.start, fin.b.start + fin.b.span)]
    /\ UNCHANGED << today, store, cfg, pipeline_stats, pc, ret, runs, faults,
                    phases, runVars, obsVars, envVars, proc, fin >>

SpecResolve == InitResolve /\ [][ResolveStep]_vars

\* ------------------------------------------------- the query API on its own
\* The clock of the API process.
QueryNow == 9 * SecondsPerDay

\* The clock reading of the second datetime.now() of a handler is up to
\* MaxElapsed after the first (the same when both fall into one tick).
MaxElapsed == 1

\* The shapes of a date parameter other than a naive time.
OddDates ==
    {Some([kind |-> "empty", t |-> 0]), Some([kind |-> "bad", t |-> 0]),
     Some([kind |-> "aware", t |-> 0])}

StartDates == {None} \cup OddDates \cup {Some(Naive(t)) : t \in 0..MaxStart}

EndDates ==
    {None} \cup OddDates
      \cup {Some(Naive(t)) : t \in {0, 1, 90, 3 * SecondsPerDay,
                                     8 * SecondsPerDay, 181 * SecondsPerDay,
                                     366 * SecondsPerDay}}

IntervalTokens ==
    {None} \cup {Some(t) : t \in {"", "1s", "1m", "1h", "1d", "5m", "raw"}}

\* The user_ids parameters explored: absent, "", " ", ",", a line feed, a
\* form feed and a no-break space, a name followed by a line feed, three
\* padded names, and six names.
UserIdParams ==
    {None, Some(<<>>), Some(<<32>>), Some(<<Comma>>), Some(<<10>>),
     Some(<<12, 160>>), Some(Chars("user1") \o <<10>>),
     Some(<<32>> \o Chars("user1") \o <<Comma>> \o Chars("user2")
            \o <<9, Comma, 13>> \o Chars("user3")),
     Some(Chars("user1") \o <<Comma>> \o Chars("user2") \o <<Comma>>
            \o Chars("user3") \o <<Comma>> \o Chars("user1") \o <<Comma>>
            \o Chars("user2") \o <<Comma>> \o Chars("user3"))}

\* Requests whose two dates both carry a UTC offset are not explored.
QueryRequests ==
    [endpoint : {"service"}, start_date : {Some(t) : t \in 0..MaxStart},
     end_date : {Some(t) : t \in {0, 1, 90, 3 * SecondsPerDay,
                                  8 * SecondsPerDay, 181 * SecondsPerDay,
                                  366 * SecondsPerDay}},
     user_id : {Some("user1")},
     metric : {None, Some(T1M), Some(SUMMARY), Some("steps")},
     interval : IntervalTokens, db : Databases, fault : {"none", "fetch"}]
    \cup
    {r \in [endpoint : {"single"}, start_date : StartDates, end_date : EndDates,
            elapsed : 0..MaxElapsed, user_id : {None, Some("user1")},
            interval : IntervalTokens, db : Databases,
            fault : {"none", "lookup", "fetch"}] :
        ~(/\ GivenDate(r.start_date) /\ r.start_date[1].kind = "aware"
          /\ GivenDate(r.end_date) /\ r.end_date[1].kind = "aware")}
    \cup
    {r \in [endpoint : {"multi"}, start_date : StartDates, end_date : EndDates,
            elapsed : 0..MaxElapsed, user_ids : UserIdParams,
            interval : IntervalTokens, db : Databases] :
        ~(/\ GivenDate(r.start_date) /\ r.start_date[1].kind = "aware"
          /\ GivenDate(r.end_date) /\ r.end_date[1].kind = "aware")}

InitQuery ==
    /\ PipelineInit
    /\ cfg = DefaultConfig
    /\ fpc = "query"
    /\ fin \in QueryRequests
    /\ fout = None

\* A request is taken up: a direct call of get_timeseries_data and a
\* multi-user request are answered; a single-user request is answered unless
\* it has to look the default user up, which is its first await on the
\* database.
QueryStep ==
    /\ fpc = "query"
    /\ CASE fin.endpoint = "service" ->
              /\ fpc' = "answered"
              /\ fout' = get_timeseries_data(fin.db, fin.start_date[1],
                                             fin.end_date[1], fin.user_id[1],
                                             fin.metric, fin.interval,
                                             fin.fault = "fetch")
         [] fin.endpoint = "single" ->
              IF awaits_default_user(QueryNow, QueryNow + fin.elapsed,
                                     fin.start_date, fin.end_date, fin.user_id)
              THEN /\ fpc' = "fetching"
                   /\ \E default_user \in
                           get_default_user_id(fin.db, fin.fault = "lookup") :
                         fout' = Some(default_user)
              ELSE /\ fpc' = "answered"
                   /\ fout' = get_timeseries(fin.db, QueryNow,
                                  QueryNow + fin.elapsed, fin.start_date,
                                  fin.end_date, fin.user_id, fin.interval,
                                  "user1", FALSE, fin.fault = "fetch")
         [] fin.endpoint = "multi" ->
              /\ fpc' = "answered"
              /\ fout' = get_multi_user_timeseries(QueryNow,
                             QueryNow + fin.elapsed, fin.start_date,
                             fin.end_date, fin.user_ids, fin.interval)
    /\ UNCHANGED << today, store, cfg, pipeline_stats, pc, ret, runs, faults,
                    phases, runVars, obsVars, envVars, proc, fin >>

\* Between the two awaits of get_timeseries a writer changes the database.
QueryWrite ==
    /\ fpc = "fetching"
    /\ \E db \in Databases \ {fin.db} : fin' = [fin EXCEPT !.db = db]
    /\ UNCHANGED << today, store, cfg, pipeline_stats, pc, ret, runs, faults,
                    phases, runVars, obsVars, envVars, proc, fpc, fout >>

\* The second await of get_timeseries: the data is fetched from the database
\* as it is now, for the user the lookup gave.
QueryFetch ==
    /\ fpc = "fetching"
    /\ fpc' = "answered"
    /\ fout' = get_timeseries(fin.db, QueryNow, QueryNow + fin.elapsed,
                              fin.start_date, fin.end_date, fin.user_id,
                              fin.interval, fout[1], fin.fault = "lookup",
                              fin.fault = "fetch")
    /\ UNCHANGED << today, store, cfg, pipeline_stats, pc, ret, runs, faults,
                    phases, runVars, obsVars, envVars, proc, fin >>

NextQuery == QueryStep \/ QueryWrite \/ QueryFetch

SpecQuery == InitQuery /\ [][NextQuery]_vars

\* ---------------------------------------- two pipeline runs at the same time
\* Two pipeline processes on one database, each with its seed and date range.
ConcInputs ==
    [run : [1..2 -> [seed : {0, 1}, start : 0..MaxDay, end : 0..MaxDay]]]

\* The (schema, records) pairs run p extracts: execute_pipeline, step 1.
ConcPairs(p) ==
    extract_all(0, fin.run[p].end - fin.run[p].start + 1, fin.run[p].start,
                fin.run[p].seed, {})

\* A run after its extraction: nothing retrieved ends it, else it is before
\* the transformation of its first pair.  ti pairs are transformed, sets is
\* all_transformed_data, li the set being loaded, bi the offset of the batch
\* in it, k the statements of the batch executed and writes their rows;
\* dropped counts the records the delta filter removed.
ConcLoader(r) ==
    [pc |-> IF r.start > r.end THEN "done" ELSE "transform",
     ti |-> 0, sets |-> <<>>, li |-> 1, bi |-> 0, k |-> 0, writes |-> <<>>,
     dropped |-> 0]

InitConc ==
    /\ PipelineInit
    /\ cfg = DefaultConfig
    /\ fpc = "conc"
    /\ fin \in ConcInputs
    /\ fout = [rows    |-> EmptyTables,
               locks   |-> {},
               loader  |-> [p \in 1..2 |-> ConcLoader(fin.run[p])],
               written |-> {},
               aborts  |-> 0]

\* execute_pipeline, step 2, one pair: transform_records_with_filtering reads
\* the watermark of the pair's table as it is committed at that moment, the
\* other run's commits included, and the set is kept when records remain.
\* After the last pair the run ends when nothing is left to load.
ConcTransform ==
    /\ fpc = "conc"
    /\ \E p \in 1..2, readable \in BOOLEAN :
          LET l == fout.loader[p]
              pairs == ConcPairs(p)
              pair == pairs[l.ti + 1]
              records == transform_records_with_filtering(
                             pair.name, pair.records, TRUE,
                             fout.rows[pair.name], readable)
              sets == IF records # <<>>
                      THEN Append(l.sets, [name |-> pair.name,
                                           records |-> records])
                      ELSE l.sets
          IN /\ l.pc = "transform"
             /\ ~readable => fout.aborts < MaxFaults
             /\ fout' = [fout EXCEPT
                           !.aborts = IF readable THEN @ ELSE @ + 1,
                           !.loader[p] =
                              [l EXCEPT
                                 !.ti = @ + 1,
                                 !.sets = sets,
                                 !.dropped = @ + Len(transform_records(
                                                    pair.name, pair.records))
                                               - Len(records),
                                 !.pc = IF l.ti + 1 < Len(pairs)
                                        THEN "transform"
                                        ELSE IF sets = <<>> THEN "done"
                                                            ELSE "load"]]
    /\ UNCHANGED << today, store, cfg, pipeline_stats, pc, ret, runs, faults,
                    phases, runVars, obsVars, envVars, proc, fin, fpc >>

\* The transformed set a run is loading.
ConcSet(p) == fout.loader[p].sets[fout.loader[p].li]

\* The batch a run is in.
ConcBatch(p) ==
    batch_slice(ConcSet(p).records, fout.loader[p].bi,
                batch_size(ConcSet(p).name))

\* The run after its batch ended: the next batch of the load, the load of
\* the next transformed set, or the end of the run.
ConcAdvance(p) ==
    LET l == fout.loader[p]
        size == batch_size(ConcSet(p).name)
    IN IF l.bi + size < Len(ConcSet(p).records)
       THEN [l EXCEPT !.bi = @ + size, !.k = 0, !.writes = <<>>]
       ELSE [l EXCEPT !.li = @ + 1, !.bi = 0, !.k = 0, !.writes = <<>>,
                      !.pc = IF l.li + 1 > Len(l.sets) THEN "done" ELSE "load"]

\* One statement of _upsert_batch inside its transaction: the row is locked
\* and written; the statement waits while the other transaction holds the key.
ConcUpsert ==
    /\ fpc = "conc"
    /\ \E p \in 1..2 :
          LET l == fout.loader[p]
              batch == ConcBatch(p)
              name == ConcSet(p).name
          IN /\ l.pc = "load"
             /\ l.k < Len(batch)
             /\ \A q \in 1..2 :
                   q # p => <<name, batch[l.k + 1].timestamp, q>> \notin fout.locks
             /\ fout' = [fout EXCEPT
                           !.locks = @ \cup {<<name, batch[l.k + 1].timestamp, p>>},
                           !.loader[p].k = @ + 1,
                           !.loader[p].writes = Append(@, batch[l.k + 1])]
    /\ UNCHANGED << today, store, cfg, pipeline_stats, pc, ret, runs, faults,
                    phases, runVars, obsVars, envVars, proc, fin, fpc >>

\* atomic_operation commits: the writes of the batch become visible at once
\* and its locks are released.
ConcCommit ==
    /\ fpc = "conc"
    /\ \E p \in 1..2 :
          LET l == fout.loader[p]
              name == ConcSet(p).name
          IN /\ l.pc = "load"
             /\ l.k = Len(ConcBatch(p))
             /\ fout' = [fout EXCEPT
                           !.rows[name] = upsert_rows(@, l.writes),
                           !.locks = {x \in @ : x[3] # p},
                           !.written = @ \cup {[by |-> p, name |-> name,
                                               row |-> l.writes[i]] :
                                                  i \in 1..Len(l.writes)},
                           !.loader[p] = ConcAdvance(p)]
    /\ UNCHANGED << today, store, cfg, pipeline_stats, pc, ret, runs, faults,
                    phases, runVars, obsVars, envVars, proc, fin, fpc >>

\* A statement raises, an INSERT, the count after the last INSERT or the
\* commit: atomic_operation rolls the batch back, the batch function returns
\* False and _batch_process goes on with the next batch.
ConcRollback ==
    /\ fpc = "conc"
    /\ fout.aborts < MaxFaults
    /\ \E p \in 1..2 :
          LET l == fout.loader[p]
          IN /\ l.pc = "load"
             /\ l.k <= Len(ConcBatch(p))
             /\ fout' = [fout EXCEPT
                           !.locks = {x \in @ : x[3] # p},
                           !.aborts = @ + 1,
                           !.loader[p] = ConcAdvance(p)]
    /\ UNCHANGED << today, store, cfg, pipeline_stats, pc, ret, runs, faults,
                    phases, runVars, obsVars, envVars, proc, fin, fpc >>

NextConc == ConcTransform \/ ConcUpsert \/ ConcCommit \/ ConcRollback

SpecConc == InitConc /\ [][NextConc]_vars

\* ================================================================= claims
RunFinished == pc = "idle" /\ ret.run # "none"

SomeLoadFailed == \E k \in 1..Len(loadLog) : loadLog[k].result = "false"

Keys(rows) == {r.timestamp : r \in rows}

\* C1.  When load_records returns failure for a transformed set, the run ends
\* Failed (execute_pipeline and run both return false), no load_records call
\* follows it in that run, and the rows the run committed before it stay in
\* the store.
C1_LoadFailureFailsRun ==
    (RunFinished /\ SomeLoadFailed) =>
        /\ ret.execute_pipeline = "false"
        /\ ret.run = "false"
        /\ \A k \in 1..Len(loadLog) :
              loadLog[k].result = "false" => k = Len(loadLog)
        /\ \A s \in Streams : committed[s] \subseteq store[s]

\* C2.  When a batch of a load_records call fails, the batch is marked failed,
\* no later batch of that call is attempted, and load_records returns false.
C2_FailedBatchAbortsLoad ==
    \A k \in 1..Len(batchLog) :
        ~batchLog[k].result =>
            /\ loading_stats.batches_failed >= 1
            /\ k = Len(batchLog)
            /\ pc # "batch" => loadLog[Len(loadLog)].result = "false"

\* The candidate starts of range discovery: watermark date + 1 day of every
\* stream that has a watermark, unless that day is in the future.
Candidates(wm, now) ==
    {DateOf(wm[s][1]) + 1 :
        s \in {x \in Streams : wm[x] # None /\ DateOf(wm[x][1]) + 1 <= now}}

CustomRange(i) == i.START_DATE # None /\ i.END_DATE # None

\* C3.  Without a custom start/end pair the computed start is the earliest
\* candidate start (watermark date + 1 day, not in the future) over the
\* streams, whatever the order the loaders are visited in; for watermarks on
\* day N and day N-3 with N+1 not after today it is day N-2.
C3_StartIsEarliestCandidate ==
    (fpc = "ranged" /\ ~CustomRange(fin)) =>
        /\ Candidates(fin.wm, fin.now) # {} =>
              fout.start = Min(Candidates(fin.wm, fin.now))
        /\ \A a, b \in Streams :
              (/\ fin.wm[a] # None /\ fin.wm[b] # None
               /\ DateOf(fin.wm[b][1]) = DateOf(fin.wm[a][1]) - 3
               /\ DateOf(fin.wm[a][1]) + 1 <= fin.now)
              => fout.start = DateOf(fin.wm[a][1]) - 2

\* Reached: watermarks on day N and day N-3, the stream that is ahead visited
\* last, and the start came out as day N-2.
C3_Witness ==
    /\ fpc = "ranged"
    /\ ~CustomRange(fin)
    /\ fin.wm[fin.order[1]] # None
    /\ fin.wm[fin.order[2]] # None
    /\ DateOf(fin.wm[fin.order[1]][1]) = DateOf(fin.wm[fin.order[2]][1]) - 3
    /\ DateOf(fin.wm[fin.order[2]][1]) + 1 <= fin.now
    /\ fout.start = DateOf(fin.wm[fin.order[2]][1]) - 2

OneRowPerKey(rows) ==
    \A r1, r2 \in rows : r1.timestamp = r2.timestamp => r1 = r2

\* C4.  After any sequence of loads the store holds at most one row per
\* primary key, and the row of a key is the one written last for it.
C4_UpsertKeepsOneLatestRow ==
    \A s \in Streams :
        /\ OneRowPerKey(store[s])
        /\ \A w \in lastWritten[s] : w \in store[s]

\* Reached: in upsert mode a key was loaded a second time with another value
\* and the store holds the later row only.
C4_Witness ==
    /\ cfg.UPSERT_MODE
    /\ \E s \in Streams : \E old \in overwritten[s] :
          /\ old \notin store[s]
          /\ \E r \in store[s] : r.timestamp = old.timestamp /\ r # old

\* The indices of the records newer than the watermark.
NewerIdx(records, w) == {i \in 1..Len(records) : records[i].timestamp > w}

\* The k-th smallest element of a set of indices.
KthIdx(I, k) == CHOOSE i \in I : Cardinality({j \in I : j < i}) = k - 1

\* C5.  The filter returns exactly the records whose timestamp is strictly
\* greater than the watermark, in their original order, and every record when
\* there is no watermark.
C5_FilterKeepsStrictlyNewer ==
    fpc = "filtered" =>
        IF fin.last = None
        THEN fout.once = fin.records
        ELSE LET I == NewerIdx(fin.records, fin.last[1])
             IN /\ Len(fout.once) = Cardinality(I)
                /\ \A k \in 1..Len(fout.once) :
                      fout.once[k] = fin.records[KthIdx(I, k)]

\* Reached: a record equal to the watermark was dropped and a newer one kept.
C5_Witness ==
    /\ fpc = "filtered"
    /\ fin.last # None
    /\ \E i \in 1..Len(fin.records) : fin.records[i].timestamp = fin.last[1]
    /\ \E i \in 1..Len(fin.records) : fin.records[i].timestamp > fin.last[1]
    /\ \A k \in 1..Len(fout.once) : fout.once[k].timestamp > fin.last[1]
    /\ Len(fout.once) >= 1

\* C6.  Filtering an already filtered list against the same watermark returns
\* the same list.
C6_FilterIdempotent ==
    fpc = "filtered" => fout.twice = fout.once

\* Reached: a filter that dropped some records and kept others was applied
\* again.
C6_Witness ==
    /\ fpc = "filtered"
    /\ fin.last # None
    /\ Len(fout.once) >= 1
    /\ Len(fout.once) < Len(fin.records)
    /\ fout.twice = fout.once

\* C7.  After any sequence of runs every record an extractor yielded with a
\* timestamp at or below the stream's watermark, MAX(timestamp), is in the
\* store.
C7_WatermarkIsSafeLowerBound ==
    pc = "idle" =>
        \A s \in Streams :
            store[s] # {} =>
                \A t \in yielded[s] :
                    t <= Max(Keys(store[s])) => t \in Keys(store[s])

\* C8.  When setup_database fails for a loader, run returns false and the run
\* determines no range, extracts, transforms and loads nothing.
C8_PreflightFailureStopsRun ==
    setupFailed # {} =>
        /\ pc = "idle"
        /\ ret.run = "false"
        /\ ret.execute_pipeline = "none"
        /\ phases = {}
        /\ range = None
        /\ all_schema_records = <<>>
        /\ all_transformed_data = <<>>
        /\ loadLog = <<>>
        /\ \A s \in Streams : committed[s] = {}

\* Reached: the second loader's setup failed and the run is over.
C8_Witness ==
    /\ setupFailed = {SUMMARY}
    /\ pc = "idle"
    /\ ret.run = "false"
    /\ phases = {}

\* C9.  An extraction error or missing day record yields an empty
\* contribution and the run continues; extraction failures, even for every
\* date and stream of the run, never by themselves make the run end Failed: a
\* run with missing day records and no failed load_records call does not have
\* execute_pipeline return false.
C9_ExtractionNeverFailsRun ==
    (RunFinished /\ "extract" \in phases /\ missingObs # {} /\ ~SomeLoadFailed)
        => ret.execute_pipeline = "true"

\* C10.  A run whose extracted records are all removed by transformation or
\* delta filtering ends with success = true, records_loaded = 0 and no
\* load_records call; a populated successful run ends with success = true and
\* records_loaded > 0.
C10_NoNewDataIsSuccess ==
    /\ (RunFinished /\ "transform" \in phases /\ all_transformed_data = <<>>) =>
          /\ ret.execute_pipeline = "true"
          /\ ret.run = "true"
          /\ pipeline_stats.success
          /\ pipeline_stats.records_loaded = 0
          /\ loadLog = <<>>
          /\ "load" \notin phases
    /\ (RunFinished /\ ret.execute_pipeline = "true"
          /\ all_transformed_data # <<>>) =>
          /\ ret.run = "true"
          /\ pipeline_stats.success
          /\ pipeline_stats.records_loaded > 0

\* Reached: a second run of a pipeline that had loaded records found nothing
\* new.
C10_Witness ==
    /\ RunFinished
    /\ runs = 2
    /\ "transform" \in phases
    /\ all_schema_records # <<>>
    /\ all_transformed_data = <<>>
    /\ pipeline_stats.records_loaded = 0
    /\ pipeline_stats.records_processed > 0
    /\ \E s \in Streams : store[s] # {}


\* The outcome of a process: failure, success with data, success without.
Outcome(success, records_loaded) ==
    IF ~success THEN "failure"
    ELSE IF records_loaded > 0 THEN "data" ELSE "no_new_data"

\* C11: the ingestion entry point exits with pairwise distinct statuses for
\* success-with-data, success-with-no-new-data and failure: the status of a
\* process that has exited is not the status main() gives to any other outcome.
C11_ExitStatusesDistinct ==
    proc.exit # None =>
        \A s \in BOOLEAN, n \in 0..1 :
            Outcome(s, n) # Outcome(ret.run = "true", pipeline_stats.records_loaded)
                => main_exit(s, n) # proc.exit[1]

\* Some load of the current run was verified and found short.
SomeVerifyFailed == \E k \in 1..Len(loadLog) : loadLog[k].verified = "false"

\* C19: a load_records call that succeeds and whose verify_loading returns
\* false does not fail the run: when no load_records call returned false, every
\* transformed set that has a loader was loaded and the run ends with success.
C19_VerifyMismatchIsNotFailure ==
    (RunFinished /\ SomeVerifyFailed /\ ~SomeLoadFailed) =>
        /\ ret.execute_pipeline = "true"
        /\ ret.run = "true"
        /\ pipeline_stats.success
        /\ \A i \in 1..Len(all_transformed_data) :
              all_transformed_data[i].name \in cfg.loaders =>
                 \E k \in 1..Len(loadLog) :
                    loadLog[k].index = i /\ loadLog[k].result = "true"

\* A run that ended with success although the verification of a load that was
\* not its last one had failed.
C19_Witness ==
    /\ RunFinished
    /\ ret.run = "true"
    /\ \E k \in 1..Len(loadLog) :
          /\ loadLog[k].verified = "false"
          /\ k < Len(loadLog)
          /\ loadLog[Len(loadLog)].result = "true"

\* No loader returns a watermark: no stream has persisted data.
NoPersistedData(i) == \A k \in 1..Len(i.order) : i.wm[i.order[k]] = None

\* C20: with no persisted data in any stream and no custom start/end pair,
\* the range starts at the configured start date if one is set and otherwise
\* 30 days before the current date, and it ends at the current date.
C20_FallbackStart ==
    (fpc = "ranged" /\ NoPersistedData(fin) /\ ~CustomRange(fin)) =>
        /\ fout.end = fin.now
        /\ fin.START_DATE # None => fout.start = fin.START_DATE[1]
        /\ fin.START_DATE = None => fout.start = fin.now - 30

\* Range discovery ran on empty tables with a configured start date that is
\* not 30 days before the current date.
C20_Witness ==
    /\ fpc = "ranged"
    /\ NoPersistedData(fin)
    /\ ~CustomRange(fin)
    /\ fin.START_DATE # None
    /\ fout.start = fin.START_DATE[1]
    /\ fout.start # fin.now - 30

\* C14: a query spanning 90 seconds is resolved to the raw table and a query
\* spanning 3 days to the 1-hour aggregate table.
C14_ResolveNamedSpans ==
    fpc = "resolved" =>
        /\ fin.a.span = 90 => fout.a.table = "activities_heart_intraday"
        /\ fin.a.span = 3 * 86400 => fout.a.table = "activities_heart_intraday_1h"

\* Both named spans were resolved: 90 seconds and 3 days.
C14_Witness ==
    /\ fpc = "resolved"
    /\ fin.a.span = 90
    /\ fin.b.span = 3 * 86400
    /\ fout.a.table = "activities_heart_intraday"
    /\ fout.b.table = "activities_heart_intraday_1h"

\* The table the documented boundaries give to a span in seconds.
DocumentedTable(span) ==
    IF span < 2 * 60 THEN "activities_heart_intraday"
    ELSE IF span < 2 * 3600 THEN "activities_heart_intraday_1m"
    ELSE IF span < 7 * 86400 THEN "activities_heart_intraday_1h"
    ELSE "activities_heart_intraday_1d"

\* C15: automatic resolution selects raw data for a span under 2 minutes,
\* else 1-minute aggregates under 2 hours, else 1-hour aggregates under
\* 7 days, else 1-day aggregates.
C15_DocumentedBoundaries ==
    fpc = "resolved" => fout.a.table = DocumentedTable(fin.a.span)

\* Granularity of a source table, finest first.
Coarseness(table) ==
    CASE table = "activities_heart_intraday" -> 0
      [] table = "activities_heart_intraday_1m" -> 1
      [] table = "activities_heart_intraday_1h" -> 2
      [] table = "activities_heart_intraday_1d" -> 3
      [] OTHER -> 4

\* C16: resolve_interval depends on the span alone and is monotone: every
\* positive span gets one of the four tables, equal spans get the same table,
\* and a longer span never gets a finer table than a shorter one.
C16_ResolutionIsMonotoneInSpan ==
    fpc = "resolved" =>
        /\ Coarseness(fout.a.table) \in 0..3
        /\ fin.a.span = fin.b.span => fout.a = fout.b
        /\ fin.a.span <= fin.b.span =>
              Coarseness(fout.a.table) <= Coarseness(fout.b.table)

\* Two queries that start at different times, the second spanning longer,
\* were resolved to different tables.
C16_Witness ==
    /\ fpc = "resolved"
    /\ fin.a.start # fin.b.start
    /\ fin.a.span < fin.b.span
    /\ Coarseness(fout.a.table) < Coarseness(fout.b.table)

\* The time and value columns of each source table.
NativeColumns(table) ==
    CASE table = "activities_heart_intraday" ->
            [time_column |-> "timestamp", value_column |-> "value",
             interval |-> "raw"]
      [] table = "activities_heart_intraday_1m" ->
            [time_column |-> "minute", value_column |-> "avg_heart_rate",
             interval |-> "1m"]
      [] table = "activities_heart_intraday_1h" ->
            [time_column |-> "hour", value_column |-> "avg_heart_rate",
             interval |-> "1h"]
      [] table = "activities_heart_intraday_1d" ->
            [time_column |-> "day", value_column |-> "avg_heart_rate",
             interval |-> "1d"]
      [] table = "activities_heart_summary" ->
            [time_column |-> "timestamp", value_column |-> "resting_heart_rate",
             interval |-> "summary"]

\* The bucket width of each valid interval token.
TokenWidth(token) ==
    CASE token = "1s" -> "1 second"
      [] token = "1m" -> "1 minute"
      [] token = "1h" -> "1 hour"
      [] token = "1d" -> "1 day"

ValidTokens == {"1s", "1m", "1h", "1d"}

\* A direct call of get_timeseries_data whose table resolves and whose fetch
\* does not fail.
ServiceCallAnswered ==
    /\ fpc = "answered"
    /\ fin.endpoint = "service"
    /\ fin.fault = "none"
    /\ fin.metric \in {None, Some("activities_heart_intraday_1m"),
                       Some("activities_heart_summary")}

\* The table a service call is resolved to.
ResolvedTable ==
    IF fin.metric # None
    THEN fin.metric[1]
    ELSE resolve_interval(fin.start_date[1], fin.end_date[1]).table

\* C17: with a valid explicit interval get_timeseries_data answers with a
\* bucketed average over the resolved table's own columns, the bucket as wide
\* as the token, whatever the table's native granularity, and every row
\* reports the token; without an explicit interval the query is not bucketed
\* and every row reports the table's native interval.
C17_ExplicitIntervalRebuckets ==
    ServiceCallAnswered =>
        /\ (fin.interval # None /\ fin.interval[1] \in ValidTokens) =>
              /\ fout.status = 200
              /\ fout.query # None
              /\ fout.query[1].bucket = Some(TokenWidth(fin.interval[1]))
              /\ fout.query[1].table = ResolvedTable
              /\ fout.query[1].time_column = NativeColumns(ResolvedTable).time_column
              /\ fout.query[1].value_column = NativeColumns(ResolvedTable).value_column
              /\ \A i \in 1..Len(fout.data) :
                    fout.data[i].interval = fin.interval[1]
        /\ fin.interval = None =>
              /\ fout.status = 200
              /\ fout.query[1].bucket = None
              /\ fout.query[1].table = ResolvedTable
              /\ \A i \in 1..Len(fout.data) :
                    fout.data[i].interval = NativeColumns(ResolvedTable).interval

\* C18: a request with an explicit interval token other than 1s, 1m, 1h, 1d
\* is answered with status 400 on both endpoints, and no query is sent to
\* the store.
C18_InvalidIntervalIsClientError ==
    (/\ fpc = "answered"
     /\ fin.endpoint \in {"single", "multi"}
     /\ fin.interval # None
     /\ fin.interval[1] \notin ValidTokens \cup {""}) =>
        /\ fout.status = 400
        /\ fout.queries = 0

\* C12.  In a multi-entity query the overall call succeeds whatever the fetch
\* of one entity does, each entity having a result of its own: a request for
\* one to MaxUsersCompared entities over a valid range with a valid interval
\* is answered with status 200.
C12_MultiEntityQuerySucceeds ==
    (/\ fpc = "answered"
     /\ fin.endpoint = "multi"
     /\ LET parsed == parse_dates(QueryNow, QueryNow + fin.elapsed,
                                  fin.start_date, fin.end_date)
        IN /\ parsed.raised = None
           /\ validate_range(parsed.start_dt[1], parsed.end_dt[1],
                             MaxDaysMulti) = None
     /\ Len(parse_user_ids(fin.user_ids)) \in 1..MaxUsersCompared
     /\ (fin.interval = None \/ fin.interval[1] \in ValidTokens \cup {""})) =>
        fout.status = 200

\* Both runs have finished.
BothDone == fout.loader[1].pc = "done" /\ fout.loader[2].pc = "done"

\* C13: whatever the interleaving of two pipeline runs that upsert into the
\* same tables, no table ever holds two rows with the same primary key, and
\* when both have finished every key written holds a value one of them wrote.
C13_ConcurrentUpsertsAreSafe ==
    fpc = "conc" =>
        /\ \A s \in Streams : OneRowPerKey(fout.rows[s])
        /\ BothDone =>
              \A w \in fout.written :
                 \E r \in fout.rows[w.name] :
                    /\ r.timestamp = w.row.timestamp
                    /\ \E v \in fout.written : v.name = w.name /\ v.row = r

\* Both runs have finished after writing a common key with different values,
\* the second run having transformed a pair after the first had committed
\* rows of that table, so that its delta filter removed records; the key
\* holds the second run's value and the table also holds a row of the first.
C13_Witness ==
    /\ fpc = "conc"
    /\ BothDone
    /\ fout.loader[2].dropped > 0
    /\ \E w, v \in fout.written :
          /\ w.by = 1
          /\ v.by = 2
          /\ w.name = v.name
          /\ w.row.timestamp = v.row.timestamp
          /\ w.row # v.row
          /\ v.row \in fout.rows[v.name]
    /\ \E w \in fout.written : w.by = 1 /\ w.row \in fout.rows[w.name]

\* The streams whose candidate start (watermark date + 1 day) is after the
\* current date.
FutureStreams(wm, now) ==
    {s \in Streams : wm[s] # None /\ DateOf(wm[s][1]) + 1 > now}

\* C21: in range discovery a stream whose candidate start is after the
\* current date is skipped: the range is the one computed as if that stream
\* had no watermark at all, and a start discovered from the watermarks is
\* never later than the current date nor the candidate of a skipped stream.
C21_FutureCandidateIsSkipped ==
    (fpc = "ranged" /\ ~CustomRange(fin)) =>
        LET future == FutureStreams(fin.wm, fin.now)
            erased == [s \in Streams |->
                          IF s \in future THEN None ELSE fin.wm[s]]
        IN /\ fout = determine_date_range(fin.order, erased, fin.now,
                                          fin.START_DATE, fin.END_DATE)
           /\ Candidates(fin.wm, fin.now) # {} =>
                 /\ fout.start <= fin.now
                 /\ \A s \in future : fout.start # DateOf(fin.wm[s][1]) + 1

\* Reached: the loader visited first has a watermark on the current date or
\* later, the other one is behind, and the start is the candidate of the
\* stream that is behind.
C21_Witness ==
    /\ fpc = "ranged"
    /\ ~CustomRange(fin)
    /\ fin.order[1] \in FutureStreams(fin.wm, fin.now)
    /\ fin.wm[fin.order[2]] # None
    /\ fin.order[2] \notin FutureStreams(fin.wm, fin.now)
    /\ fout.start = DateOf(fin.wm[fin.order[2]][1]) + 1
    /\ fout.start <= fin.now

\* The dates of the watermarks the loaders return.
WatermarkDates(i) ==
    {DateOf(i.wm[s][1]) : s \in {x \in Streams : i.wm[x] # None}}

\* C30: range discovery uses the no-data fallback start (configured start
\* date, else 30 days before the current date) only when no stream has
\* persisted data: when some stream has a watermark the run does not start
\* before every watermark date, and when every stream has a watermark and all
\* are up to date it does not go back to the fallback start.
C30_FallbackOnlyWithoutData ==
    (fpc = "ranged" /\ ~CustomRange(fin) /\ ~NoPersistedData(fin)) =>
        fout.start >= Min(WatermarkDates(fin))

\* C23: calculate_shift is cyclic with period 30: a date and the date 30 days
\* later have the same shift and replay the same cached day record, and the
\* shift is an index in 0..29, also for dates before the base date.
C23_ShiftIsCyclic ==
    fpc = "shifted" =>
        /\ fout.shift = fout.later
        /\ fout.shift \in 0..(CycleLength - 1)
        /\ fout.later \in 0..(CycleLength - 1)
        /\ fout.sample = fout.replay

\* Reached: the shift of a date before the base date whose date 30 days
\* later is after the base date, and the shift is not 0.
C23_Witness ==
    /\ fpc = "shifted"
    /\ fin < BaseDay
    /\ fin + CycleLength > BaseDay
    /\ fout.shift = fout.later
    /\ fout.shift > 0

\* A candidate whose date and time parts are both present and parsable.
WellFormed(r) ==
    /\ r.dateTime # None /\ r.time # None
    /\ r.dateTime[1] # Unparsable /\ r.time[1] # Unparsable

\* The candidate carries a value that is a number.
HasValue(r) ==
    /\ "value" \in DOMAIN r
    /\ r.value # None
    /\ r.value[1] # Unparsable

\* The canonical records of the candidates of an input that satisfy Keep, in
\* input order; default is the value of a candidate without one.
CanonicalOf(records, Keep(_), default) ==
    LET kept == SelectSeq(records, Keep)
    IN [k \in 1..Len(kept) |->
           [timestamp |-> kept[k].dateTime[1] * PerDay + kept[k].time[1],
            value     |-> IF HasValue(kept[k])
                          THEN kept[k].value[1] ELSE default]]

\* The candidates of an input whose date or time part is absent or unparsable.
IllFormed(records) == SelectSeq(records, LAMBDA r : ~WellFormed(r))

\* C22: transform_records returns for every input: a candidate whose date or
\* time part is absent or unparsable is left out of the output and counted as
\* invalid, and the other candidates are still transformed and returned in
\* input order (the src/etl transformer also rejects a candidate without a
\* numeric value, the ingestion transformer fills the value with 0).
C22_RejectionNeverAbortsBatch ==
    fpc = "transformed" =>
        /\ fout.etl.records =
              CanonicalOf(fin, LAMBDA r : WellFormed(r) /\ HasValue(r), 0)
        /\ fout.ingestion.records = CanonicalOf(fin, WellFormed, 0)
        /\ fout.etl.transformation_stats.invalid_records
              >= Len(IllFormed(fin))
        /\ fout.ingestion.transformation_stats.invalid_records
              >= Len(IllFormed(fin))

\* Reached: an input whose first candidate has an unparsable part and whose
\* last candidate is well formed; the output holds the well-formed one.
C22_Witness ==
    /\ fpc = "transformed"
    /\ Len(fin) >= 2
    /\ fin[1].dateTime = Some(Unparsable)
    /\ WellFormed(fin[Len(fin)]) /\ HasValue(fin[Len(fin)])
    /\ Len(fout.etl.records) >= 1
    /\ Len(fout.ingestion.records) >= 1
    /\ fout.etl.transformation_stats.invalid_records >= 1

\* The statistics of one transform_records result count every candidate once.
StatsConsistent(result, n) ==
    LET s == result.transformation_stats
    IN /\ s.total_records = n
       /\ s.valid_records + s.invalid_records = s.total_records
       /\ s.valid_records = Len(result.records)
       /\ s.invalid_records = n - Len(result.records)

\* C29: after transform_records on n candidates, total_records = n,
\* valid_records + invalid_records = total_records, valid_records is the
\* number of returned records and invalid_records the number of rejected
\* records, each rejection counted once.
C29_StatsCountEachRecordOnce ==
    fpc = "transformed" =>
        /\ StatsConsistent(fout.etl, Len(fin))
        /\ StatsConsistent(fout.ingestion, Len(fin))

\* The timestamps of the records of a batch.
BatchKeys(batch) == {batch[k].timestamp : k \in 1..Len(batch)}

\* C24: each batch runs in one transaction: a step that processes a batch in
\* which a row fails leaves the store as it was, and a step that processes a
\* batch successfully persists every row of the batch and touches no other
\* row; no step persists part of a batch.
C24_BatchIsAtomic ==
    [][(pc = "batch" /\ batchLog' # batchLog) =>
          LET name == all_transformed_data[li].name
              batch == batch_slice(all_transformed_data[li].records, bi,
                                   batch_size(name))
              result == batchLog'[Len(batchLog')].result
          IN /\ \A s \in Streams \ {name} : store'[s] = store[s]
             /\ ~result => store'[name] = store[name]
             /\ result =>
                   /\ \A k \in 1..Len(batch) : batch[k] \in store'[name]
                   /\ \A r \in store[name] :
                         r.timestamp \notin BatchKeys(batch) => r \in store'[name]
                   /\ \A r \in store'[name] :
                         r \in store[name] \/ r.timestamp \in BatchKeys(batch)
      ]_vars

\* Reached: the first batch of a load, two records, failed and none of its
\* rows is in the table.
C24_Witness ==
    /\ pc = "batch"
    /\ batchLog = << [i |-> 0, result |-> FALSE] >>
    /\ LET name == all_transformed_data[li].name
           batch == batch_slice(all_transformed_data[li].records, 0,
                                batch_size(name))
       IN /\ Len(batch) = 2
          /\ \A k \in 1..Len(batch) : batch[k] \notin store[name]
          /\ BatchKeys(batch) \cap Keys(store[name]) = {}

\* The batches of a load_records call, joined in the order they were
\* processed.
RECURSIVE JoinBatches(_, _, _)
JoinBatches(records, log, size) ==
    IF log = <<>>
    THEN <<>>
    ELSE batch_slice(records, Head(log).i, size)
           \o JoinBatches(records, Tail(log), size)

\* C25: load_records splits its records into consecutive batches of at most
\* the batch size (1 for the summary stream), every record in exactly one
\* batch, and processes them in order: the k-th batch starts at record
\* (k-1) * size, and it begins only when every earlier batch has been
\* committed or rolled back.
C25_BatchesInSubmissionOrder ==
    loadLog # <<>> =>
        LET td == all_transformed_data[loadLog[Len(loadLog)].index]
            size == batch_size(td.name)
        IN /\ td.name = SUMMARY => size = 1
           /\ \A k \in 1..Len(batchLog) :
                 /\ batchLog[k].i = (k - 1) * size
                 /\ Len(batch_slice(td.records, batchLog[k].i, size)) \in 1..size
           /\ pc = "batch" =>
                 /\ bi = Len(batchLog) * size
                 /\ bi < Len(td.records)
           /\ loadLog[Len(loadLog)].result = "true" =>
                 JoinBatches(td.records, batchLog, size) = td.records

\* Reached: a load of three intraday records finished after two batches, the
\* first of which was rolled back.
C25_Witness ==
    /\ loadLog # <<>>
    /\ loadLog[Len(loadLog)].result = "true"
    /\ all_transformed_data[loadLog[Len(loadLog)].index].name = INTRADAY
    /\ Len(all_transformed_data[loadLog[Len(loadLog)].index].records) = 3
    /\ Len(batchLog) = 2
    /\ ~batchLog[1].result
    /\ batchLog[2].result

\* The date an extracted (schema, records) pair was extracted for, and the
\* date of a transformed set.
PairDate(p) == p.records[1].dateTime[1]
SetDate(td) == DateOf(td.records[1].timestamp)

\* The position of a stream in the registration order of the extractors.
StreamRank(s) == CHOOSE k \in 1..Len(RegistrationOrder) : RegistrationOrder[k] = s

\* C26: execute_pipeline(start, end) extracts once per registered extractor
\* for every date from start to end inclusive, in ascending date order and
\* for no other date (a date and stream without a day record contributes
\* nothing), and the loads of one stream are attempted in ascending date
\* order.
C26_EveryDateExtractedOnceAscending ==
    (range # None /\ "extract" \in phases) =>
        LET start == range[1].start
            end == range[1].end
            P == all_schema_records
        IN /\ \A k \in 1..Len(P) : PairDate(P[k]) \in start..end
           /\ \A d \in start..end, s \in Streams :
                 Cardinality({k \in 1..Len(P) :
                                 P[k].name = s /\ PairDate(P[k]) = d})
                    = IF <<d, s>> \in missingObs THEN 0 ELSE 1
           /\ \A j, k \in 1..Len(P) :
                 j < k =>
                    \/ PairDate(P[j]) < PairDate(P[k])
                    \/ /\ PairDate(P[j]) = PairDate(P[k])
                       /\ StreamRank(P[j].name) < StreamRank(P[k].name)
           /\ \A j, k \in 1..Len(loadLog) :
                 (j < k /\ loadLog[j].name = loadLog[k].name) =>
                    SetDate(all_transformed_data[loadLog[j].index])
                       < SetDate(all_transformed_data[loadLog[k].index])

\* Reached: a run over two dates extracted both streams for both dates and
\* loaded one stream for the first date and then for the second.
C26_Witness ==
    /\ range # None
    /\ "extract" \in phases
    /\ range[1].end = range[1].start + 1
    /\ Len(all_schema_records) = 4
    /\ \E j, k \in 1..Len(loadLog) :
          /\ j < k
          /\ loadLog[j].name = loadLog[k].name
          /\ SetDate(all_transformed_data[loadLog[j].index]) = range[1].start
          /\ SetDate(all_transformed_data[loadLog[k].index]) = range[1].end

\* C27: for any sequence of run() calls on one pipeline instance, run()
\* returns true only if the execute_pipeline of that call succeeded.
C27_RunReportsOwnOutcome ==
    (RunFinished /\ ret.run = "true") => ret.execute_pipeline = "true"

\* The records passed to the load_records calls of the run that returned
\* success.
LoadedCount(log) ==
    LET ok == SelectSeq(log, LAMBDA e : e.result = "true")
    IN SumLen([k \in 1..Len(ok) |-> all_transformed_data[ok[k].index]])

\* C28: at the end of a successful run records_loaded is the number of
\* records passed to load_records calls that returned success; the records
\* of a stream with no registered loader are not counted.
C28_RecordsLoadedCountsLoads ==
    (RunFinished /\ ret.execute_pipeline = "true") =>
        pipeline_stats.records_loaded = LoadedCount(loadLog)

====
